---- MODULE Spec2Model ----
(***************************************************************************)
(* A model of the task / task_completion_source state machine of           *)
(* cpp-async (include/async/task.h, task_completion_source.h,              *)
(* awaitable_result.h).                                                    *)
(*                                                                         *)
(* One task_state is shared by its producer (a task_completion_source or   *)
(* the promise of a task coroutine) and by the task handles that consume   *)
(* it.  Every atomic access of the code (a load, an exchange or a          *)
(* compare_exchange_strong on stateOrCompletion or m_completionState) is   *)
(* one step of the model; the steps of racing threads interleave freely.   *)
(***************************************************************************)
EXTENDS Integers, Sequences, FiniteSets, TLC

(***************************************************************************)
(* Bounds of the model.                                                    *)
(***************************************************************************)
\* number of threads that call set_* / try_set_* on the one source
NumCompleters == 2
\* number of raw await_suspend / await_resume calls, and of await_ready
\* calls, made on the task
MaxCalls == 2
\* number of task<T> objects that refer to the one task_state at a time
MaxHandles == 2
\* number of task coroutines in a chain, each awaiting the task before it
ChainLen == 3
\* number of threads that call set() or wait() on one event_signal
NumEvThreads == 3
\* number of spurious wake-ups of std::condition_variable::wait
MaxSpurious == 1

Completers == 1..NumCompleters
\* the threads that each hold a task object of the one task_state
Awaiters == 1..MaxHandles

(***************************************************************************)
(* Data domains.                                                           *)
(***************************************************************************)
\* values a producer may supply (the T of task<T>)
Values == {"v7", "v42"}
\* the empty std::exception_ptr
NoException == "empty"
\* exceptions a producer may supply to set_exception / throw from its body
Exceptions == {"E"}
\* what a completionException out-parameter may hold on entry
StaleException == "stale"
\* what a continuation whose promise rethrows raises out of resume()
ContinuationException == "Ec"

(***************************************************************************)
(* The coordination word task_state::stateOrCompletion holds one of three  *)
(* sentinel addresses or the address of a registered coroutine handle.     *)
(***************************************************************************)
\* task_state::running_state(): the address of the task_state itself
running_state == "running"
\* task_state::ready_state(): the address of the result member
ready_state == "ready"
\* task_state::done_state(): nullptr
done_state == "null"

\* the addresses of the coroutine handles a consumer may pass to await_suspend
Handles == {"h1", "h2"}
\* a handle whose address() is nullptr
NullHandle == "null"
HandleArgs == Handles \cup {NullHandle}

\* What the coroutine behind a handle does when it is resumed:
\*   noop         std::noop_coroutine(): nothing
\*   await        a coroutine suspended in co_await task: it calls
\*                await_resume and handles whatever that throws
\*   await_throw  the same, but its promise's unhandled_exception rethrows,
\*                so resume() raises ContinuationException
Continuations == {"noop", "await", "await_throw"}
\* does the continuation call await_resume when resumed
ContinuationAwaits(k) == k \in {"await", "await_throw"}
\* does resume() of the continuation raise
ContinuationThrows(k) == k = "await_throw"

(***************************************************************************)
(* awaitable_result<T>                                                     *)
(***************************************************************************)
\* awaitable_result(): m_storageType = unset
UnsetResult == [type |-> "unset", val |-> NoException]
\* awaitable_result::set_value
result_set_value(v) == [type |-> "value", val |-> v]
\* set_exception that tags the stored exception as a value
result_set_exception_as_value(e) == [type |-> "value", val |-> e]
\* awaitable_result::set_exception
result_set_exception(e) == [type |-> "exception", val |-> e]

\* operator() that returns a default value in place of the stored one
result_read_loses_value(r) ==
    CASE r.type = "exception" -> [kind |-> "rethrow", val |-> r.val]
      [] r.type = "value" -> [kind |-> "return", val |-> NoException]
      [] OTHER -> [kind |-> "throw", val |-> "Awaitable result is not yet available."]

\* awaitable_result::operator()(): what reading the slot yields
result_read(r) ==
    CASE r.type = "exception" -> [kind |-> "rethrow", val |-> r.val]
      [] r.type = "value" -> [kind |-> "return", val |-> r.val]
      [] OTHER -> [kind |-> "throw", val |-> "Awaitable result is not yet available."]

(***************************************************************************)
(* atomic_acq_rel<T>::compare_exchange_strong on a cell holding cur.       *)
(***************************************************************************)
\* an unconditional exchange in place of the compare-and-swap
compare_exchange_strong_unconditional(cur, expected, desired) ==
    [success |-> TRUE, stored |-> desired, observed |-> cur]

compare_exchange_strong(cur, expected, desired) ==
    [success |-> cur = expected,
     stored |-> IF cur = expected THEN desired ELSE cur,
     observed |-> cur]

(***************************************************************************)
(* task_state                                                              *)
(***************************************************************************)
\* is_completion that tests the null sentinel the wrong way round
is_completion_wrong_sentinel(value) ==
    value # running_state /\ value # ready_state /\ value = done_state

\* task_state::is_completion
is_completion(value) ==
    value # running_state /\ value # ready_state /\ value # done_state

\* mark_ready that forgets the continuation it displaced
mark_ready_drops_handle(word) ==
    [stored |-> ready_state, handle |-> NullHandle]

\* mark_ready that loads the word without exchanging it for Ready
mark_ready_leaves_word(word) ==
    [stored |-> word,
     handle |-> IF is_completion(word) THEN word ELSE NullHandle]

\* task_state::mark_ready: the unconditional exchange and the handle it
\* returns (NullHandle stands for the empty std::coroutine_handle<>{})
mark_ready(word) ==
    [stored |-> ready_state,
     handle |-> IF is_completion(word) THEN word ELSE NullHandle]

(***************************************************************************)
(* task<T>                                                                 *)
(***************************************************************************)
\* await_ready that takes only the Ready sentinel for a completed task
await_ready_only_ready(word) == word = ready_state

\* task::await_ready
await_ready(word) == word = ready_state \/ word = done_state

\* await_suspend without the usage error
await_suspend_never_throws(word, handleAddress) ==
    IF handleAddress = NullHandle
    THEN [stored |-> word, ret |-> "false"]
    ELSE LET cas == compare_exchange_strong(word, running_state, handleAddress)
         IN  IF ~cas.success
             THEN [stored |-> cas.stored, ret |-> "false"]
             ELSE [stored |-> cas.stored, ret |-> "true"]

\* await_suspend that reports a suspension whenever the handle is not null
await_suspend_always_true(word, handleAddress) ==
    IF handleAddress = NullHandle
    THEN [stored |-> word, ret |-> "false"]
    ELSE LET cas == compare_exchange_strong(word, running_state, handleAddress)
         IN  [stored |-> cas.stored, ret |-> "true"]

\* await_suspend that treats every failed registration as a usage error
await_suspend_throws_on_ready(word, handleAddress) ==
    IF handleAddress = NullHandle
    THEN [stored |-> word, ret |-> "false"]
    ELSE LET cas == compare_exchange_strong(word, running_state, handleAddress)
         IN  IF ~cas.success
             THEN [stored |-> cas.stored, ret |-> "throw"]
             ELSE [stored |-> cas.stored, ret |-> "true"]

\* await_suspend that stores the handle with an unconditional exchange
await_suspend_exchanges(word, handleAddress) ==
    IF handleAddress = NullHandle
    THEN [stored |-> word, ret |-> "false"]
    ELSE [stored |-> handleAddress,
          ret |-> IF word = running_state THEN "true" ELSE "false"]

\* await_suspend that replaces a continuation already registered
await_suspend_last_wins(word, handleAddress) ==
    IF handleAddress = NullHandle
    THEN [stored |-> word, ret |-> "false"]
    ELSE IF word \in {ready_state, done_state}
         THEN [stored |-> word,
               ret |-> IF word = ready_state THEN "false" ELSE "throw"]
         ELSE [stored |-> handleAddress, ret |-> "true"]

\* await_suspend without the test for a null handle address
await_suspend_without_null_check(word, handleAddress) ==
    LET cas == compare_exchange_strong(word, running_state, handleAddress)
    IN  IF ~cas.success
        THEN IF cas.observed # ready_state
             THEN [stored |-> cas.stored, ret |-> "throw"]
             ELSE [stored |-> cas.stored, ret |-> "false"]
        ELSE [stored |-> cas.stored, ret |-> "true"]

\* task::await_suspend: the word it leaves and what the call does
await_suspend(word, handleAddress) ==
    IF handleAddress = NullHandle
    THEN [stored |-> word, ret |-> "false"]
    ELSE LET cas == compare_exchange_strong(word, running_state, handleAddress)
         IN  IF ~cas.success
             THEN IF cas.observed # ready_state
                  THEN [stored |-> cas.stored, ret |-> "throw"]
                  ELSE [stored |-> cas.stored, ret |-> "false"]
             ELSE [stored |-> cas.stored, ret |-> "true"]

\* await_resume that leaves the word Ready after reading the result
await_resume_keeps_ready(word, r) ==
    LET cas == compare_exchange_strong(word, ready_state, ready_state)
    IN  IF ~cas.success
        THEN IF cas.observed = done_state
             THEN [stored |-> cas.stored,
                   out |-> [kind |-> "throw", val |-> "only once"]]
             ELSE [stored |-> cas.stored,
                   out |-> [kind |-> "throw", val |-> "before ready"]]
        ELSE [stored |-> cas.stored, out |-> result_read(r)]

\* await_resume that exchanges the word for Terminal before testing it
await_resume_exchanges(word, r) ==
    IF word # ready_state
    THEN IF word = done_state
         THEN [stored |-> done_state,
               out |-> [kind |-> "throw", val |-> "only once"]]
         ELSE [stored |-> done_state,
               out |-> [kind |-> "throw", val |-> "before ready"]]
    ELSE [stored |-> done_state, out |-> result_read(r)]

\* task::await_resume: the word it leaves and what the call yields
await_resume(word, r) ==
    LET cas == compare_exchange_strong(word, ready_state, done_state)
    IN  IF ~cas.success
        THEN IF cas.observed = done_state
             THEN [stored |-> cas.stored,
                   out |-> [kind |-> "throw", val |-> "only once"]]
             ELSE [stored |-> cas.stored,
                   out |-> [kind |-> "throw", val |-> "before ready"]]
        ELSE [stored |-> cas.stored, out |-> result_read(r)]

(***************************************************************************)
(* task_completion_source_core                                             *)
(***************************************************************************)
\* a strict wrapper that throws 'already been completed' whatever happened
set_outcome_always_completed(tryRet, cex) == "already_completed"

\* a strict wrapper that reports every false of try_set_* as already completed
set_outcome_drops_exception(tryRet, cex) ==
    IF ~tryRet THEN "already_completed" ELSE "ok"

\* the strict set_value / set_exception wrapper around try_set_*: what the
\* call does given what try_set_* returned and left in completionException
set_outcome(tryRet, cex) ==
    IF ~tryRet
    THEN IF cex # NoException THEN "rethrow" ELSE "already_completed"
    ELSE "ok"

\* a try_set_* that reports success whatever happened
try_outcome_always_true(tryRet) == "true"

\* the try_set_* overloads with a completionException out-parameter
try_outcome(tryRet) == IF tryRet THEN "true" ELSE "false"

\* a wrapper that returns false where it should terminate
terminate_outcome_returns_false(tryRet, cex) ==
    IF ~tryRet THEN "false" ELSE "true"

\* try_set_*_terminate_on_completion_exception, behind the deprecated
\* try_set_* overloads without a completionException parameter
terminate_outcome(tryRet, cex) ==
    IF ~tryRet
    THEN IF cex # NoException THEN "terminate" ELSE "false"
    ELSE "true"

IsStrict(o) == o \in {"set_value", "set_exception"}
IsTry(o) == o \in {"try_set_value", "try_set_exception"}
IsDeprecated(o) ==
    o \in {"try_set_value_terminate_on_completion_exception",
           "try_set_exception_terminate_on_completion_exception"}
SetsException(o) ==
    o \in {"set_exception", "try_set_exception",
           "try_set_exception_terminate_on_completion_exception"}
Ops == {"set_value", "try_set_value", "set_exception", "try_set_exception",
        "try_set_value_terminate_on_completion_exception",
        "try_set_exception_terminate_on_completion_exception"}
CoroutineOps == {"co_return", "co_throw"}

\* what the call of operation o reports to its caller
call_outcome(o, tryRet, cex) ==
    IF IsStrict(o) THEN set_outcome(tryRet, cex)
    ELSE IF IsDeprecated(o) THEN terminate_outcome(tryRet, cex)
    ELSE try_outcome(tryRet)

(***************************************************************************)
(* State.                                                                  *)
(***************************************************************************)
VARIABLES
    backing,             \* what produces the task: "source" or "coroutine"
    stateOrCompletion,   \* task_state::stateOrCompletion
    result,              \* task_state::result
    m_completionState,   \* task_completion_source_core::m_completionState
    pc,                  \* where each completing thread is in its call
    op,                  \* the operation each completing thread called
    arg,                 \* the value or exception it passed
    completionException, \* its completionException (out-parameter or local)
    possibleCompletion,  \* the handle mark_ready returned to it
    tryRet,              \* what try_set_* / try_complete returned to it
    outcome,             \* what its call reported to the caller
    writers,             \* history: the threads that wrote the result slot
    markReadyCalls,      \* history: number of mark_ready executions
    resumptions,         \* history: handles resumed, and by which thread
    suspendLog,          \* history: the await_suspend calls, in order
    resumeLog,           \* history: the await_resume calls, in order
    registeredAtExchange,\* history: handle registered before the exchange
    readyLog,            \* history: the await_ready calls, in order
    taskHandles,         \* number of live task<T> objects (task::m_state)
    cpc,                 \* position of the consumer that follows co_await
    header,              \* chain: the task header the coroutines are built with
    chWord,              \* chain: stateOrCompletion of the task of each coroutine
    chResult,            \* chain: result of the task of each coroutine
    chPc,                \* chain: where each coroutine is
    chStack,             \* chain: per thread, the coroutines it is running, nested
    m_signaled,          \* event_signal::m_signaled
    m_mutex,             \* event_signal::m_mutex is locked
    evPc,                \* event_signal: where each call of set() / wait() is
    evSpurious,          \* event_signal: number of spurious wake-ups so far
    evTimed,             \* event_signal: per thread, its timed wait and timeout
    adapter,             \* the function the task was handed to
    callbackThrows,      \* awaitable_then: the callback raises an exception
    apc,                 \* where the coroutine of the adapter is
    callerPc,            \* where the thread that called the adapter is
    adResult,            \* the awaitable_result the adapter stores into
    thenLog,             \* history: the invocations of the callback
    futureState,         \* the shared state of the std::promise / std::future
    futureSets,          \* history: number of times the promise was fulfilled
    callerOut,           \* what the adapter gave the thread that called it
    scopeDestroyed,      \* the locals of the task coroutine's body are destroyed
    awPc,                \* awaiters: where each is in its await_resume call
    awOut,               \* awaiters: what its await_resume yielded
    resultReads          \* history: number of reads of the result slot

chainVars == <<header, chWord, chResult, chPc, chStack>>
eventVars == <<m_signaled, m_mutex, evPc, evSpurious, evTimed>>
adapterVars == <<adapter, callbackThrows, apc, callerPc, adResult, thenLog,
                 futureState, futureSets, callerOut>>
\* the variables of the scenarios built around the one task
awaiterVars == <<awPc, awOut, resultReads>>
extVars == <<chainVars, eventVars, adapterVars, scopeDestroyed, awaiterVars>>

vars == <<backing, stateOrCompletion, result, m_completionState, pc, op, arg,
          completionException, possibleCompletion, tryRet, outcome, writers,
          markReadyCalls, resumptions, suspendLog, resumeLog,
          registeredAtExchange, readyLog, taskHandles, cpc, extVars>>

producerVars == <<pc, op, arg, completionException, possibleCompletion,
                  tryRet, outcome>>

\* the handle some await_suspend call has registered (returned true for)
RegisteredHandle ==
    IF \E i \in 1..Len(suspendLog) : suspendLog[i].ret = "true"
    THEN suspendLog[CHOOSE i \in 1..Len(suspendLog) :
                        suspendLog[i].ret = "true"].h
    ELSE NullHandle

\* the await_resume calls that yielded the result (returned or rethrew it)
IsConsumption(e) == e.out.kind \in {"return", "rethrow"}
Consumptions == {i \in 1..Len(resumeLog) : IsConsumption(resumeLog[i])}
DirectResumes == {i \in 1..Len(resumeLog) : resumeLog[i].via = "direct"}
\* the record of an await_resume call: what it yielded, whether it ran on the
\* caller's thread or in a resumed continuation, and whether mark_ready had
\* run before it
ResumeEntry(out, via) ==
    [out |-> out, via |-> via, completedBefore |-> markReadyCalls > 0]
\* the number of raw calls made on the task so far
RawCalls == Len(suspendLog) + Cardinality(DirectResumes)

(***************************************************************************)
(* Ownership of the task_state: every task<T> holds a shared_ptr to it,    *)
(* task_completion_source_core holds a shared_ptr too, and                 *)
(* task_promise_type holds a weak_ptr.                                     *)
(***************************************************************************)
\* a count in which the promise of the coroutine owns the state as well
use_count_promise_owns == taskHandles + 1

\* std::shared_ptr::use_count() of the task_state
use_count ==
    taskHandles + (IF backing = "source" THEN 1 ELSE 0)
\* a weak_ptr whose lock() always finds the task_state
expired_never == FALSE

\* the task_state has been destroyed; std::weak_ptr::lock() returns null
expired == use_count = 0

(***************************************************************************)
(* Init: task_completion_source_core() or task_promise_type::              *)
(* get_return_object() has run task_state::create_shared().                *)
(***************************************************************************)
\* no chain of coroutines has been built
ChainIdle ==
    /\ header = "none"
    /\ chWord = <<>> /\ chResult = <<>> /\ chPc = <<>> /\ chStack = <<>>

\* no event_signal is in use
EventIdle ==
    /\ m_signaled = FALSE /\ m_mutex = FALSE
    /\ evPc = <<>> /\ evSpurious = 0 /\ evTimed = <<>>

\* the task has been handed to no adapter
AdapterIdle ==
    /\ adapter = "none" /\ callbackThrows = FALSE
    /\ apc = "none" /\ callerPc = "none"
    /\ adResult = UnsetResult /\ thenLog = <<>>
    /\ futureState = UnsetResult /\ futureSets = 0
    /\ callerOut = [kind |-> "none", val |-> NoException]

\* no thread has called await_resume through a task object of its own
AwaitersIdle ==
    /\ awPc = [t \in Awaiters |-> "idle"]
    /\ awOut = [t \in Awaiters |-> [kind |-> "none", val |-> NoException]]
    /\ resultReads = 0

InitCommon ==
    /\ ChainIdle /\ EventIdle /\ AdapterIdle /\ AwaitersIdle
    /\ scopeDestroyed = FALSE
    /\ backing \in {"source", "coroutine"}
    /\ stateOrCompletion = running_state
    /\ result = UnsetResult
    /\ m_completionState = "unset"
    /\ pc = [p \in Completers |-> "idle"]
    /\ op = [p \in Completers |-> "none"]
    /\ arg = [p \in Completers |-> NoException]
    /\ completionException = [p \in Completers |-> NoException]
    /\ possibleCompletion = [p \in Completers |-> NullHandle]
    /\ tryRet = [p \in Completers |-> FALSE]
    /\ outcome = [p \in Completers |-> "none"]
    /\ writers = <<>>
    /\ markReadyCalls = 0
    /\ resumptions = <<>>
    /\ suspendLog = <<>>
    /\ resumeLog = <<>>
    /\ registeredAtExchange = [p \in Completers |-> NullHandle]
    /\ readyLog = <<>>
    /\ taskHandles = 1

Init == InitCommon /\ cpc = "none"

(***************************************************************************)
(* Producer side: task_completion_source_core.                             *)
(***************************************************************************)
\* The completing threads are interchangeable, so they enter their calls in
\* the order of their numbers: thread p calls once thread p - 1 has called.
\* The steps of the calls themselves interleave in every order.
MayCall(p) == pc[p] = "idle" /\ (IF p = 1 THEN TRUE ELSE pc[p - 1] # "idle")

\* a call that, failing to claim the source, resets the completion flag
Finish_resets_flag(p, o, a, cex, out) ==
    /\ pc' = [pc EXCEPT ![p] = "done"]
    /\ op' = [op EXCEPT ![p] = o]
    /\ arg' = [arg EXCEPT ![p] = a]
    /\ completionException' = [completionException EXCEPT ![p] = cex]
    /\ outcome' = [outcome EXCEPT ![p] = out]
    /\ m_completionState' = "unset"
    /\ UNCHANGED <<possibleCompletion, tryRet>>

\* a call that ends without having claimed the source
Finish(p, o, a, cex, out) ==
    /\ pc' = [pc EXCEPT ![p] = "done"]
    /\ op' = [op EXCEPT ![p] = o]
    /\ arg' = [arg EXCEPT ![p] = a]
    /\ completionException' = [completionException EXCEPT ![p] = cex]
    /\ outcome' = [outcome EXCEPT ![p] = out]
    /\ UNCHANGED <<m_completionState, possibleCompletion, tryRet>>

\* try_set_* that goes on to write whether or not it claimed the source
Claim_ignores_flag(p, o, a, cex) ==
    /\ m_completionState' = "setting"
    /\ pc' = [pc EXCEPT ![p] = "write"]
    /\ op' = [op EXCEPT ![p] = o]
    /\ arg' = [arg EXCEPT ![p] = a]
    /\ completionException' = [completionException EXCEPT ![p] = cex]
    /\ UNCHANGED <<possibleCompletion, tryRet, outcome>>

\* a try_set_* that, finding the source already set, completes it again
Claim_completes_again(p, o, a, cex) ==
    LET cas == compare_exchange_strong(m_completionState, "unset", "setting")
    IN  IF ~cas.success /\ m_completionState # "set"
        THEN Finish(p, o, a, cex, call_outcome(o, FALSE, cex))
        ELSE /\ m_completionState' =
                    IF cas.success THEN cas.stored ELSE m_completionState
             /\ pc' = [pc EXCEPT ![p] = IF cas.success THEN "write"
                                        ELSE "complete"]
             /\ op' = [op EXCEPT ![p] = o]
             /\ arg' = [arg EXCEPT ![p] = a]
             /\ completionException' = [completionException EXCEPT ![p] = cex]
             /\ UNCHANGED <<possibleCompletion, tryRet, outcome>>

\* try_set_value / try_set_exception up to and including the
\* compare_exchange_strong(unset, setting) on m_completionState
Claim(p, o, a, cex) ==
    LET cas == compare_exchange_strong(m_completionState, "unset", "setting")
    IN  IF ~cas.success
        THEN Finish(p, o, a, cex, call_outcome(o, FALSE, cex))
        ELSE /\ m_completionState' = cas.stored
             /\ pc' = [pc EXCEPT ![p] = "write"]
             /\ op' = [op EXCEPT ![p] = o]
             /\ arg' = [arg EXCEPT ![p] = a]
             /\ completionException' = [completionException EXCEPT ![p] = cex]
             /\ UNCHANGED <<possibleCompletion, tryRet, outcome>>

consumerVars == <<stateOrCompletion, result, writers, markReadyCalls,
                  resumptions, suspendLog, resumeLog, registeredAtExchange,
                  readyLog, taskHandles, cpc, extVars>>

\* task_completion_source_core::set_value
SetValue(p, v) ==
    /\ backing = "source" /\ MayCall(p)
    /\ Claim(p, "set_value", v, NoException)
    /\ UNCHANGED <<backing, consumerVars>>

\* task_completion_source_core::try_set_value(completionException, v)
TrySetValue(p, v, cex) ==
    /\ backing = "source" /\ MayCall(p)
    /\ Claim(p, "try_set_value", v, cex)
    /\ UNCHANGED <<backing, consumerVars>>

\* task_completion_source_core::set_exception
SetException(p, e) ==
    /\ backing = "source" /\ MayCall(p)
    /\ IF e = NoException
       THEN Finish(p, "set_exception", e, NoException, "invalid_argument")
       ELSE Claim(p, "set_exception", e, NoException)
    /\ UNCHANGED <<backing, consumerVars>>

\* try_set_exception that claims the source before it tests its argument
TrySetException_claims_first(p, e, cex) ==
    /\ backing = "source" /\ MayCall(p)
    /\ IF e = NoException
       THEN /\ pc' = [pc EXCEPT ![p] = "done"]
            /\ op' = [op EXCEPT ![p] = "try_set_exception"]
            /\ arg' = [arg EXCEPT ![p] = e]
            /\ completionException' = [completionException EXCEPT ![p] = cex]
            /\ outcome' = [outcome EXCEPT ![p] = "false"]
            /\ m_completionState' =
                   compare_exchange_strong(m_completionState, "unset",
                                           "setting").stored
            /\ UNCHANGED <<possibleCompletion, tryRet>>
       ELSE Claim(p, "try_set_exception", e, cex)
    /\ UNCHANGED <<backing, consumerVars>>

\* task_completion_source_core::try_set_exception(e, completionException)
TrySetException(p, e, cex) ==
    /\ backing = "source" /\ MayCall(p)
    /\ IF e = NoException
       THEN Finish(p, "try_set_exception", e, cex, "false")
       ELSE Claim(p, "try_set_exception", e, cex)
    /\ UNCHANGED <<backing, consumerVars>>

\* task_completion_source_core::
\* try_set_value_terminate_on_completion_exception
TrySetValueTerminate(p, v) ==
    /\ backing = "source" /\ MayCall(p)
    /\ Claim(p, "try_set_value_terminate_on_completion_exception", v,
             NoException)
    /\ UNCHANGED <<backing, consumerVars>>

\* task_completion_source_core::
\* try_set_exception_terminate_on_completion_exception
TrySetExceptionTerminate(p, e) ==
    /\ backing = "source" /\ MayCall(p)
    /\ IF e = NoException
       THEN Finish(p, "try_set_exception_terminate_on_completion_exception",
                   e, NoException, "false")
       ELSE Claim(p, "try_set_exception_terminate_on_completion_exception",
                  e, NoException)
    /\ UNCHANGED <<backing, consumerVars>>

\* a try_set_* that goes on to publish without writing the result slot
WriteResult_writes_nothing(p) ==
    /\ pc[p] = "write"
    /\ pc' = [pc EXCEPT ![p] = "publish"]
    /\ UNCHANGED <<backing, stateOrCompletion, result, writers,
                   m_completionState, op, arg,
                   completionException, possibleCompletion, tryRet, outcome,
                   markReadyCalls, resumptions, suspendLog, resumeLog,
                   registeredAtExchange, cpc, readyLog, taskHandles, extVars>>

\* m_taskState->result.set_value(...) / result.set_exception(exception)
WriteResult(p) ==
    /\ pc[p] = "write"
    /\ result' = IF SetsException(op[p]) THEN result_set_exception(arg[p])
                 ELSE result_set_value(arg[p])
    /\ writers' = Append(writers, p)
    /\ pc' = [pc EXCEPT ![p] = "publish"]
    /\ UNCHANGED <<backing, stateOrCompletion, m_completionState, op, arg,
                   completionException, possibleCompletion, tryRet, outcome,
                   markReadyCalls, resumptions, suspendLog, resumeLog,
                   registeredAtExchange, cpc, readyLog, taskHandles, extVars>>

\* a try_set_* that calls try_complete without storing set in the flag
Publish_skips_set(p) ==
    /\ pc[p] = "publish"
    /\ pc' = [pc EXCEPT ![p] = "complete"]
    /\ UNCHANGED <<backing, stateOrCompletion, result, op, arg,
                   m_completionState,
                   completionException, possibleCompletion, tryRet, outcome,
                   writers, markReadyCalls, resumptions, suspendLog,
                   resumeLog, registeredAtExchange, cpc, readyLog, taskHandles, extVars>>

\* m_completionState = task_completion_state::set
Publish(p) ==
    /\ pc[p] = "publish"
    /\ m_completionState' = "set"
    /\ pc' = [pc EXCEPT ![p] = "complete"]
    /\ UNCHANGED <<backing, stateOrCompletion, result, op, arg,
                   completionException, possibleCompletion, tryRet, outcome,
                   writers, markReadyCalls, resumptions, suspendLog,
                   resumeLog, registeredAtExchange, cpc, readyLog, taskHandles, extVars>>

\* the exchange of mark_ready and the branch on the handle it returns
Exchange(p) ==
    LET mr == mark_ready(stateOrCompletion)
    IN  /\ stateOrCompletion' = mr.stored
        /\ markReadyCalls' = markReadyCalls + 1
        /\ registeredAtExchange' =
               [registeredAtExchange EXCEPT ![p] = RegisteredHandle]
        /\ possibleCompletion' = [possibleCompletion EXCEPT ![p] = mr.handle]
        /\ IF mr.handle # NullHandle
           THEN /\ pc' = [pc EXCEPT ![p] = "resume"]
                /\ UNCHANGED <<tryRet, outcome>>
           ELSE /\ pc' = [pc EXCEPT ![p] = "done"]
                /\ tryRet' = [tryRet EXCEPT ![p] = TRUE]
                /\ outcome' = [outcome EXCEPT ![p] =
                                   IF op[p] \in CoroutineOps THEN "ok"
                                   ELSE call_outcome(op[p], TRUE, NoException)]

\* task_completion_source_core::try_complete up to the resumption
TryComplete(p) ==
    /\ pc[p] = "complete"
    /\ completionException' = [completionException EXCEPT ![p] = NoException]
    /\ Exchange(p)
    /\ UNCHANGED <<backing, result, m_completionState, op, arg, writers,
                   resumptions, suspendLog, resumeLog, cpc, readyLog, taskHandles, extVars>>

\* the record of a resumption: the handle resumed, the thread that resumed
\* it, and what resume() raised (NoException when it returned normally)
ResumptionEntry(h, p, k) ==
    [h |-> h, by |-> p,
     raised |-> IF ContinuationThrows(k) THEN ContinuationException
                ELSE NoException]

\* try_complete whose catch (...) drops the exception and reports success
Resume_swallows_exception(p, k) ==
    LET h == possibleCompletion[p]
        ar == await_resume(stateOrCompletion, result)
    IN  /\ pc[p] = "resume"
        /\ cpc = "suspended" => ContinuationAwaits(k)
        /\ ContinuationAwaits(k) => taskHandles > 0
        /\ resumptions' = Append(resumptions, ResumptionEntry(h, p, k))
        /\ IF ContinuationAwaits(k)
           THEN /\ stateOrCompletion' = ar.stored
                /\ resumeLog' = Append(resumeLog,
                                       ResumeEntry(ar.out, "continuation"))
                /\ cpc' = IF cpc = "suspended" THEN "done" ELSE cpc
           ELSE UNCHANGED <<stateOrCompletion, resumeLog, cpc>>
        /\ tryRet' = [tryRet EXCEPT ![p] = TRUE]
        /\ UNCHANGED completionException
        /\ pc' = [pc EXCEPT ![p] = "return"]
        /\ UNCHANGED <<backing, result, m_completionState, op, arg,
                       possibleCompletion, outcome, writers, markReadyCalls,
                       suspendLog, registeredAtExchange, readyLog, taskHandles, extVars>>

\* possibleCompletion(): the continuation, of kind k, runs on the completing
\* thread; the coroutine of a consumer suspended in co_await calls await_resume
Resume(p, k) ==
    LET h == possibleCompletion[p]
        ar == await_resume(stateOrCompletion, result)
    IN  /\ pc[p] = "resume"
        /\ cpc = "suspended" => ContinuationAwaits(k)
        /\ ContinuationAwaits(k) => taskHandles > 0
        /\ resumptions' = Append(resumptions, ResumptionEntry(h, p, k))
        /\ IF ContinuationAwaits(k)
           THEN /\ stateOrCompletion' = ar.stored
                /\ resumeLog' = Append(resumeLog,
                                       ResumeEntry(ar.out, "continuation"))
                /\ cpc' = IF cpc = "suspended" THEN "done" ELSE cpc
           ELSE UNCHANGED <<stateOrCompletion, resumeLog, cpc>>
        /\ IF ContinuationThrows(k)
           THEN /\ completionException' =
                       [completionException EXCEPT ![p] = ContinuationException]
                /\ tryRet' = [tryRet EXCEPT ![p] = FALSE]
           ELSE /\ tryRet' = [tryRet EXCEPT ![p] = TRUE]
                /\ UNCHANGED completionException
        /\ pc' = [pc EXCEPT ![p] = "return"]
        /\ UNCHANGED <<backing, result, m_completionState, op, arg,
                       possibleCompletion, outcome, writers, markReadyCalls,
                       suspendLog, registeredAtExchange, readyLog, taskHandles, extVars>>

\* the call returns to (or throws into) its caller after the resumption; an
\* exception leaving the noexcept final_suspend terminates the process
Return(p) ==
    /\ pc[p] = "return"
    /\ pc' = [pc EXCEPT ![p] = "done"]
    /\ outcome' = [outcome EXCEPT ![p] =
           IF op[p] \in CoroutineOps
           THEN IF completionException[p] # NoException
                THEN "terminate" ELSE "ok"
           ELSE call_outcome(op[p], tryRet[p], completionException[p])]
    /\ UNCHANGED <<backing, stateOrCompletion, result, m_completionState, op,
                   arg, completionException, possibleCompletion, tryRet,
                   writers, markReadyCalls, resumptions, suspendLog,
                   resumeLog, registeredAtExchange, cpc, readyLog, taskHandles, extVars>>

(***************************************************************************)
(* Producer side: the promise of a task coroutine.                         *)
(***************************************************************************)
\* a return_value that marks the task ready as soon as it has stored the value
CoReturn_marks_ready(p, v) ==
    /\ backing = "coroutine" /\ p = 1 /\ pc[p] = "idle"
    /\ IF expired
       THEN UNCHANGED <<result, writers, stateOrCompletion, markReadyCalls>>
       ELSE /\ result' = result_set_value(v)
            /\ writers' = Append(writers, p)
            /\ stateOrCompletion' = mark_ready(stateOrCompletion).stored
            /\ markReadyCalls' = markReadyCalls + 1
    /\ op' = [op EXCEPT ![p] = "co_return"]
    /\ arg' = [arg EXCEPT ![p] = v]
    /\ pc' = [pc EXCEPT ![p] = "final_suspend"]
    /\ UNCHANGED <<backing, m_completionState,
                   completionException, possibleCompletion, tryRet, outcome,
                   resumptions, suspendLog, resumeLog,
                   registeredAtExchange, cpc, readyLog, taskHandles, extVars>>

\* the coroutine body ends: task_promise_type::return_value(v)
CoReturn(p, v) ==
    /\ backing = "coroutine" /\ p = 1 /\ pc[p] = "idle"
    /\ IF expired
       THEN UNCHANGED <<result, writers>>
       ELSE /\ result' = result_set_value(v)
            /\ writers' = Append(writers, p)
    /\ op' = [op EXCEPT ![p] = "co_return"]
    /\ arg' = [arg EXCEPT ![p] = v]
    /\ pc' = [pc EXCEPT ![p] = "final_suspend"]
    /\ UNCHANGED <<backing, stateOrCompletion, m_completionState,
                   completionException, possibleCompletion, tryRet, outcome,
                   markReadyCalls, resumptions, suspendLog, resumeLog,
                   registeredAtExchange, cpc, readyLog, taskHandles, extVars>>

\* the coroutine body throws: task_promise_type::unhandled_exception()
CoThrow(p, e) ==
    /\ backing = "coroutine" /\ p = 1 /\ pc[p] = "idle"
    /\ IF expired
       THEN UNCHANGED <<result, writers>>
       ELSE /\ result' = result_set_exception(e)
            /\ writers' = Append(writers, p)
    /\ op' = [op EXCEPT ![p] = "co_throw"]
    /\ arg' = [arg EXCEPT ![p] = e]
    /\ pc' = [pc EXCEPT ![p] = "final_suspend"]
    /\ UNCHANGED <<backing, stateOrCompletion, m_completionState,
                   completionException, possibleCompletion, tryRet, outcome,
                   markReadyCalls, resumptions, suspendLog, resumeLog,
                   registeredAtExchange, cpc, readyLog, taskHandles, extVars>>

\* after return_value / unhandled_exception and before final_suspend, the
\* objects local to the body of the coroutine are destroyed
CoLeaveScope(p) ==
    /\ pc[p] = "final_suspend" /\ ~scopeDestroyed
    /\ scopeDestroyed' = TRUE
    /\ UNCHANGED <<backing, stateOrCompletion, result, m_completionState,
                   producerVars, writers, markReadyCalls, resumptions,
                   suspendLog, resumeLog, registeredAtExchange, readyLog,
                   taskHandles, cpc, chainVars, eventVars, adapterVars,
                   awaiterVars>>

\* task_promise_type::final_suspend -> run_completion_if_exists ->
\* get_completion -> mark_ready, up to the resumption
FinalSuspend(p) ==
    /\ pc[p] = "final_suspend" /\ scopeDestroyed
    /\ IF expired
       THEN /\ pc' = [pc EXCEPT ![p] = "done"]
            /\ outcome' = [outcome EXCEPT ![p] = "ok"]
            /\ UNCHANGED <<stateOrCompletion, markReadyCalls,
                           registeredAtExchange, possibleCompletion, tryRet>>
       ELSE Exchange(p)
    /\ UNCHANGED <<backing, result, m_completionState, op, arg,
                   completionException, writers, resumptions, suspendLog,
                   resumeLog, cpc, readyLog, taskHandles, extVars>>

(***************************************************************************)
(* Consumer side: raw calls on a task handle, in any order.                *)
(***************************************************************************)
SuspendEntry(h, ret) ==
    [h |-> h, ret |-> ret,
     completedBefore |-> markReadyCalls > 0,
     consumedBefore |-> Consumptions # {}]

\* task::await_suspend(handle)
AwaitSuspend(h) ==
    LET r == await_suspend(stateOrCompletion, h)
    IN  /\ cpc = "none"
        /\ taskHandles > 0
        /\ RawCalls < MaxCalls
        /\ stateOrCompletion' = r.stored
        /\ suspendLog' = Append(suspendLog, SuspendEntry(h, r.ret))
        /\ UNCHANGED <<backing, result, m_completionState, producerVars,
                       writers, markReadyCalls, resumptions, resumeLog,
                       registeredAtExchange, cpc, readyLog, taskHandles, extVars>>

\* task::await_resume()
AwaitResume ==
    LET r == await_resume(stateOrCompletion, result)
    IN  /\ cpc = "none"
        /\ taskHandles > 0
        /\ RawCalls < MaxCalls
        /\ stateOrCompletion' = r.stored
        /\ resumeLog' = Append(resumeLog, ResumeEntry(r.out, "direct"))
        /\ UNCHANGED <<backing, result, m_completionState, producerVars,
                       writers, markReadyCalls, resumptions, suspendLog,
                       registeredAtExchange, cpc, readyLog, taskHandles, extVars>>

Next ==
    \/ \E p \in Completers, v \in Values : SetValue(p, v)
    \/ \E p \in Completers, v \in Values,
          cex \in {NoException, StaleException} : TrySetValue(p, v, cex)
    \/ \E p \in Completers, e \in Exceptions \cup {NoException} :
          SetException(p, e)
    \/ \E p \in Completers, e \in Exceptions \cup {NoException},
          cex \in {NoException, StaleException} : TrySetException(p, e, cex)
    \/ \E p \in Completers : WriteResult(p)
    \/ \E p \in Completers : Publish(p)
    \/ \E p \in Completers : TryComplete(p)
    \/ \E p \in Completers, k \in Continuations : Resume(p, k)
    \/ \E p \in Completers : Return(p)
    \/ \E p \in Completers, v \in Values : CoReturn(p, v)
    \/ \E p \in Completers, e \in Exceptions : CoThrow(p, e)
    \/ \E p \in Completers : CoLeaveScope(p)
    \/ \E p \in Completers : FinalSuspend(p)
    \/ \E h \in HandleArgs : AwaitSuspend(h)
    \/ AwaitResume

Spec == Init /\ [][Next]_vars

(***************************************************************************)
(* Consumer side: one consumer that follows the co_await protocol on the   *)
(* task (await_ready; if false await_suspend; await_resume once ready or   *)
(* once resumed), against one producer that completes the task.            *)
(***************************************************************************)
\* the one producer of the protocol scenario
Producer == CHOOSE p \in Completers : \A q \in Completers : p <= q
ProtoInit == InitCommon /\ cpc = "start"

\* the record of an await_ready call: what it returned, the word it loaded,
\* whether the producer had done anything yet, and whether a completing call
\* had already returned successfully
ReadyEntry(ret) ==
    [ret |-> ret, observed |-> stateOrCompletion,
     fresh |-> \A p \in Completers : pc[p] = "idle",
     returnedBefore |-> \E p \in Completers : outcome[p] \in {"ok", "true"}]

\* co_await task: task::await_ready()
CoAwaitReady ==
    /\ cpc = "start"
    /\ cpc' = IF await_ready(stateOrCompletion) THEN "resume" ELSE "suspend"
    /\ readyLog' = Append(readyLog, ReadyEntry(await_ready(stateOrCompletion)))
    /\ UNCHANGED <<backing, stateOrCompletion, result, m_completionState,
                   producerVars, writers, markReadyCalls, resumptions,
                   suspendLog, resumeLog, registeredAtExchange, taskHandles, extVars>>

\* task::await_ready() called on the task handle at any other moment (it is
\* const and only loads the word)
AwaitReady ==
    /\ Len(readyLog) < MaxCalls
    /\ readyLog' = Append(readyLog, ReadyEntry(await_ready(stateOrCompletion)))
    /\ UNCHANGED <<backing, stateOrCompletion, result, m_completionState,
                   producerVars, writers, markReadyCalls, resumptions,
                   suspendLog, resumeLog, registeredAtExchange, cpc,
                   taskHandles, extVars>>

\* co_await task: task::await_suspend(h) after await_ready returned false
CoAwaitSuspend(h) ==
    LET r == await_suspend(stateOrCompletion, h)
    IN  /\ cpc = "suspend"
        /\ stateOrCompletion' = r.stored
        /\ suspendLog' = Append(suspendLog, SuspendEntry(h, r.ret))
        /\ cpc' = CASE r.ret = "true" -> "suspended"
                    [] r.ret = "false" -> "resume"
                    [] OTHER -> "failed"
        /\ UNCHANGED <<backing, result, m_completionState, producerVars,
                       writers, markReadyCalls, resumptions, resumeLog,
                       registeredAtExchange, readyLog, taskHandles, extVars>>

\* co_await task: task::await_resume() on the consumer's own thread, when
\* await_ready returned true or await_suspend returned false
CoAwaitResume ==
    LET r == await_resume(stateOrCompletion, result)
    IN  /\ cpc = "resume"
        /\ stateOrCompletion' = r.stored
        /\ resumeLog' = Append(resumeLog, ResumeEntry(r.out, "direct"))
        /\ cpc' = "done"
        /\ UNCHANGED <<backing, result, m_completionState, producerVars,
                       writers, markReadyCalls, resumptions, suspendLog,
                       registeredAtExchange, readyLog, taskHandles, extVars>>

ProducerStep ==
    \/ \E v \in Values : SetValue(Producer, v)
    \/ \E v \in Values, cex \in {NoException, StaleException} :
          TrySetValue(Producer, v, cex)
    \/ \E e \in Exceptions : SetException(Producer, e)
    \/ \E e \in Exceptions, cex \in {NoException, StaleException} :
          TrySetException(Producer, e, cex)
    \/ \E v \in Values : TrySetValueTerminate(Producer, v)
    \/ \E e \in Exceptions : TrySetExceptionTerminate(Producer, e)
    \/ WriteResult(Producer)
    \/ Publish(Producer)
    \/ TryComplete(Producer)
    \/ \E k \in Continuations : Resume(Producer, k)
    \/ Return(Producer)
    \/ \E v \in Values : CoReturn(Producer, v)
    \/ \E e \in Exceptions : CoThrow(Producer, e)
    \/ CoLeaveScope(Producer)
    \/ FinalSuspend(Producer)

ConsumerStep ==
    \/ CoAwaitReady
    \/ \E h \in Handles : CoAwaitSuspend(h)
    \/ CoAwaitResume

ProtoNext == ProducerStep \/ ConsumerStep \/ AwaitReady

\* every thread that can take a step eventually takes one
ProtoSpec ==
    ProtoInit /\ [][ProtoNext]_vars /\ WF_vars(ProducerStep) /\ WF_vars(ConsumerStep)

(***************************************************************************)
(* Lifetime of the task_state: task objects are created (task_completion_  *)
(* source::task(), copies of a task) and destroyed while one producer      *)
(* completes and raw calls are made through the task objects that exist.   *)
(***************************************************************************)
\* ~task(): the shared_ptr task::m_state is released
DropTask ==
    /\ taskHandles > 0
    /\ taskHandles' = taskHandles - 1
    /\ UNCHANGED <<backing, stateOrCompletion, result, m_completionState,
                   producerVars, writers, markReadyCalls, resumptions,
                   suspendLog, resumeLog, registeredAtExchange, readyLog, cpc,
                   extVars>>

\* task_completion_source::task(), or the copy of a task: one more shared_ptr
NewTask ==
    /\ taskHandles < MaxHandles
    /\ ~expired
    /\ taskHandles > 0 \/ backing = "source"
    /\ taskHandles' = taskHandles + 1
    /\ UNCHANGED <<backing, stateOrCompletion, result, m_completionState,
                   producerVars, writers, markReadyCalls, resumptions,
                   suspendLog, resumeLog, registeredAtExchange, readyLog, cpc,
                   extVars>>

LifetimeNext ==
    \/ ProducerStep
    \/ DropTask
    \/ NewTask
    \/ \E h \in HandleArgs : AwaitSuspend(h)
    \/ AwaitResume

LifetimeSpec == Init /\ [][LifetimeNext]_vars

(***************************************************************************)
(* Several threads, each holding a task object of one task_completion_     *)
(* source (task_completion_source::task() hands out a new task around the  *)
(* same task_state on every call), call await_resume while completing     *)
(* calls race on the source.  await_resume is two steps here: the          *)
(* compare_exchange on the word, then, for the call whose exchange         *)
(* succeeded, the read of the result slot.                                 *)
(***************************************************************************)
AwaitersInit == InitCommon /\ backing = "source" /\ cpc = "none"

\* an await_resume whose successful exchange leaves the word Ready
AwExchange_leaves_ready(t) ==
    LET r == await_resume(stateOrCompletion, result)
    IN  /\ awPc[t] = "idle" /\ t <= taskHandles
        /\ stateOrCompletion' = stateOrCompletion
        /\ IF r.out.kind = "throw"
           THEN /\ awPc' = [awPc EXCEPT ![t] = "done"]
                /\ awOut' = [awOut EXCEPT ![t] = r.out]
           ELSE /\ awPc' = [awPc EXCEPT ![t] = "read"]
                /\ UNCHANGED awOut
        /\ UNCHANGED <<backing, result, m_completionState, producerVars,
                       writers, markReadyCalls, resumptions, suspendLog,
                       resumeLog, registeredAtExchange, readyLog, taskHandles,
                       cpc, chainVars, eventVars, adapterVars, scopeDestroyed,
                       resultReads>>

\* task::await_resume of thread t up to the compare_exchange_strong(ready,
\* done) and, where that fails, the throw
AwExchange(t) ==
    LET r == await_resume(stateOrCompletion, result)
    IN  /\ awPc[t] = "idle" /\ t <= taskHandles
        /\ stateOrCompletion' = r.stored
        /\ IF r.out.kind = "throw"
           THEN /\ awPc' = [awPc EXCEPT ![t] = "done"]
                /\ awOut' = [awOut EXCEPT ![t] = r.out]
           ELSE /\ awPc' = [awPc EXCEPT ![t] = "read"]
                /\ UNCHANGED awOut
        /\ UNCHANGED <<backing, result, m_completionState, producerVars,
                       writers, markReadyCalls, resumptions, suspendLog,
                       resumeLog, registeredAtExchange, readyLog, taskHandles,
                       cpc, chainVars, eventVars, adapterVars, scopeDestroyed,
                       resultReads>>

\* return m_state->result(): the call that moved the word to done reads the
\* result slot and returns or rethrows what it holds
AwRead(t) ==
    /\ awPc[t] = "read"
    /\ awOut' = [awOut EXCEPT ![t] = result_read(result)]
    /\ resultReads' = resultReads + 1
    /\ awPc' = [awPc EXCEPT ![t] = "done"]
    /\ UNCHANGED <<backing, stateOrCompletion, result, m_completionState,
                   producerVars, writers, markReadyCalls, resumptions,
                   suspendLog, resumeLog, registeredAtExchange, readyLog,
                   taskHandles, cpc, chainVars, eventVars, adapterVars,
                   scopeDestroyed>>

AwaitersNext ==
    \/ \E p \in Completers, v \in Values : SetValue(p, v)
    \/ \E p \in Completers, e \in Exceptions : SetException(p, e)
    \/ \E p \in Completers : WriteResult(p)
    \/ \E p \in Completers : Publish(p)
    \/ \E p \in Completers : TryComplete(p)
    \/ NewTask
    \/ \E t \in Awaiters : AwExchange(t)
    \/ \E t \in Awaiters : AwRead(t)

AwaitersSpec == AwaitersInit /\ [][AwaitersNext]_vars

(***************************************************************************)
(* Any number of threads racing every completing operation of one source   *)
(* (the deprecated overloads and empty exception_ptr arguments included)   *)
(* against one consumer that follows the co_await protocol.                *)
(***************************************************************************)
RaceInit == InitCommon /\ backing = "source" /\ cpc = "start"

CallStep ==
    \/ \E p \in Completers, v \in Values : SetValue(p, v)
    \/ \E p \in Completers, v \in Values,
          cex \in {NoException, StaleException} : TrySetValue(p, v, cex)
    \/ \E p \in Completers, v \in Values : TrySetValueTerminate(p, v)
    \/ \E p \in Completers, e \in Exceptions \cup {NoException} :
          SetException(p, e)
    \/ \E p \in Completers, e \in Exceptions \cup {NoException},
          cex \in {NoException, StaleException} : TrySetException(p, e, cex)
    \/ \E p \in Completers, e \in Exceptions \cup {NoException} :
          TrySetExceptionTerminate(p, e)

CompleteStep ==
    \/ \E p \in Completers : WriteResult(p)
    \/ \E p \in Completers : Publish(p)
    \/ \E p \in Completers : TryComplete(p)
    \/ \E p \in Completers, k \in Continuations : Resume(p, k)
    \/ \E p \in Completers : Return(p)

RaceNext == CallStep \/ CompleteStep \/ ConsumerStep

RaceSpec == RaceInit /\ [][RaceNext]_vars

(***************************************************************************)
(* A chain of task coroutines, coroutine i being                           *)
(*     task<T> f_i() { co_return co_await f_(i-1)(); }                     *)
(* Coroutine 1 runs its body on the completing thread; the others are      *)
(* started one after the other on the starting thread, where each awaits   *)
(* the task of the coroutine before it.  chStack[t] is the call stack of   *)
(* thread t: the coroutines whose resume() calls are nested on it.         *)
(***************************************************************************)
Chain == 1..ChainLen
ChThreads == {"starter", "completer"}
\* the two headers of the repository that define task<T>
Headers == {"async/task.h", "task.h"}
\* std::coroutine_handle<>::address() of each coroutine of the chain
ChHandles == <<"c1", "c2", "c3", "c4", "c5", "c6">>
ChHandle(i) == ChHandles[i]
\* std::coroutine_handle<task_promise_type<T>>::from_address
from_address(h) == CHOOSE i \in Chain : ChHandle(i) = h

\* every variable of the one-task scenarios
taskVars == <<backing, stateOrCompletion, result, m_completionState, pc, op,
              arg, completionException, possibleCompletion, tryRet, outcome,
              writers, markReadyCalls, resumptions, suspendLog, resumeLog,
              registeredAtExchange, readyLog, taskHandles, cpc,
              scopeDestroyed, awaiterVars>>

\* a task_state just created, with one task object, that no call has touched
TaskFresh ==
    /\ scopeDestroyed = FALSE /\ AwaitersIdle
    /\ stateOrCompletion = running_state
    /\ result = UnsetResult
    /\ m_completionState = "unset"
    /\ pc = [p \in Completers |-> "idle"]
    /\ op = [p \in Completers |-> "none"]
    /\ arg = [p \in Completers |-> NoException]
    /\ completionException = [p \in Completers |-> NoException]
    /\ possibleCompletion = [p \in Completers |-> NullHandle]
    /\ tryRet = [p \in Completers |-> FALSE]
    /\ outcome = [p \in Completers |-> "none"]
    /\ writers = <<>>
    /\ markReadyCalls = 0
    /\ resumptions = <<>>
    /\ suspendLog = <<>>
    /\ resumeLog = <<>>
    /\ registeredAtExchange = [p \in Completers |-> NullHandle]
    /\ readyLog = <<>>
    /\ taskHandles = 1

\* the one-task scenario at rest: a source that nobody completes or awaits
TaskIdle == TaskFresh /\ backing = "source" /\ cpc = "none"

\* get_return_object has created the task_state of every coroutine;
\* coroutine 1 is in its body on the completing thread
ChainInit ==
    /\ TaskIdle /\ EventIdle /\ AdapterIdle
    /\ header \in Headers
    /\ chWord = [i \in Chain |-> running_state]
    /\ chResult = [i \in Chain |-> UnsetResult]
    /\ chPc = [i \in Chain |-> IF i = 1 THEN "body" ELSE "init"]
    /\ chStack = [t \in ChThreads |->
                     IF t = "completer" THEN <<1>> ELSE <<>>]

\* the coroutine that thread t is executing (0 when it executes none)
ChTop(t) == IF chStack[t] = <<>> THEN 0 ELSE chStack[t][Len(chStack[t])]
\* control returns from the coroutine on top of the stack of t
ChPop(t) == [chStack EXCEPT ![t] = SubSeq(@, 1, Len(@) - 1)]

\* the starting thread calls coroutine function i (initial_suspend is
\* suspend_never): its body runs up to the co_await on the task before it
ChStart(i) ==
    /\ i > 1 /\ chPc[i] = "init" /\ chPc[i - 1] # "init"
    /\ chStack["starter"] = <<>>
    /\ chStack' = [chStack EXCEPT !["starter"] = <<i>>]
    /\ chPc' = [chPc EXCEPT ![i] = "await_ready"]
    /\ UNCHANGED <<taskVars, eventVars, adapterVars, header, chWord, chResult>>

\* co_await, first step: task::await_ready on the task before it
ChAwaitReady(t) ==
    LET i == ChTop(t)
    IN  /\ i > 1 /\ chPc[i] = "await_ready"
        /\ chPc' = [chPc EXCEPT ![i] = IF await_ready(chWord[i - 1])
                                        THEN "await_resume"
                                        ELSE "await_suspend"]
        /\ UNCHANGED <<taskVars, eventVars, adapterVars, header, chWord, chResult, chStack>>

\* co_await, second step: task::await_suspend(handle of coroutine i); when
\* it returns true the coroutine is suspended and control returns to the
\* caller of the coroutine function; when it throws, the exception is
\* handled by task_promise_type::unhandled_exception
ChAwaitSuspend(t) ==
    LET i == ChTop(t)
        r == await_suspend(chWord[i - 1], ChHandle(i))
    IN  /\ i > 1 /\ chPc[i] = "await_suspend"
        /\ chWord' = [chWord EXCEPT ![i - 1] = r.stored]
        /\ IF r.ret = "true"
           THEN /\ chPc' = [chPc EXCEPT ![i] = "suspended"]
                /\ chStack' = ChPop(t)
                /\ UNCHANGED chResult
           ELSE IF r.ret = "false"
           THEN /\ chPc' = [chPc EXCEPT ![i] = "await_resume"]
                /\ UNCHANGED <<chStack, chResult>>
           ELSE /\ chPc' = [chPc EXCEPT ![i] = "final_suspend"]
                /\ chResult' = [chResult EXCEPT ![i] =
                                   result_set_exception("only once")]
                /\ UNCHANGED chStack
        /\ UNCHANGED <<taskVars, eventVars, adapterVars, header>>

\* co_await, last step: task::await_resume on the task before it, then
\* co_return of what it returned: return_value, or unhandled_exception
ChAwaitResume(t) ==
    LET i == ChTop(t)
        ar == await_resume(chWord[i - 1], chResult[i - 1])
    IN  /\ i > 1 /\ chPc[i] = "await_resume"
        /\ chWord' = [chWord EXCEPT ![i - 1] = ar.stored]
        /\ chResult' = [chResult EXCEPT ![i] =
                            IF ar.out.kind = "return"
                            THEN result_set_value(ar.out.val)
                            ELSE result_set_exception(ar.out.val)]
        /\ chPc' = [chPc EXCEPT ![i] = "final_suspend"]
        /\ UNCHANGED <<taskVars, eventVars, adapterVars, header, chStack>>

\* the body of coroutine 1 ends with co_return v, or with exception v
ChBody(t, v) ==
    /\ ChTop(t) = 1 /\ chPc[1] = "body"
    /\ chResult' = [chResult EXCEPT ![1] =
                        IF v \in Values THEN result_set_value(v)
                        ELSE result_set_exception(v)]
    /\ chPc' = [chPc EXCEPT ![1] = "final_suspend"]
    /\ UNCHANGED <<taskVars, eventVars, adapterVars, header, chWord, chStack>>

\* async/task.h: final_suspend -> run_completion_if_exists: mark_ready,
\* then possibleCompletion() is called from within final_suspend
ChFinalSuspend(t) ==
    LET i == ChTop(t)
        mr == mark_ready(chWord[i])
    IN  /\ header = "async/task.h"
        /\ i > 0 /\ chPc[i] = "final_suspend"
        /\ chWord' = [chWord EXCEPT ![i] = mr.stored]
        /\ IF mr.handle # NullHandle
           THEN /\ chStack' = [chStack EXCEPT ![t] =
                                   Append(@, from_address(mr.handle))]
                /\ chPc' = [chPc EXCEPT
                               ![i] = "run_completion",
                               ![from_address(mr.handle)] = "await_resume"]
           ELSE /\ chStack' = ChPop(t)
                /\ chPc' = [chPc EXCEPT ![i] = "done"]
        /\ UNCHANGED <<taskVars, eventVars, adapterVars, header, chResult>>

\* async/task.h: possibleCompletion() has returned; final_suspend returns
\* suspend_never and the coroutine ends
ChCompletionReturns(t) ==
    LET i == ChTop(t)
    IN  /\ i > 0 /\ chPc[i] = "run_completion"
        /\ chStack' = ChPop(t)
        /\ chPc' = [chPc EXCEPT ![i] = "done"]
        /\ UNCHANGED <<taskVars, eventVars, adapterVars, header, chWord, chResult>>

\* task.h: final_suspend returns symmetric_transfer, whose await_suspend
\* exchanges the word for Ready and returns the handle to transfer to (the
\* registered continuation, or std::noop_coroutine()): the coroutine is
\* suspended and the continuation takes its place on the stack
ChSymmetricTransfer(t) ==
    LET i == ChTop(t)
        mr == mark_ready(chWord[i])
    IN  /\ header = "task.h"
        /\ i > 0 /\ chPc[i] = "final_suspend"
        /\ chWord' = [chWord EXCEPT ![i] = mr.stored]
        /\ IF mr.handle # NullHandle
           THEN /\ chStack' = [chStack EXCEPT ![t] =
                                   Append(SubSeq(@, 1, Len(@) - 1),
                                          from_address(mr.handle))]
                /\ chPc' = [chPc EXCEPT
                               ![i] = "done",
                               ![from_address(mr.handle)] = "await_resume"]
           ELSE /\ chStack' = ChPop(t)
                /\ chPc' = [chPc EXCEPT ![i] = "done"]
        /\ UNCHANGED <<taskVars, eventVars, adapterVars, header, chResult>>

ChainNext ==
    \/ \E i \in Chain : ChStart(i)
    \/ \E t \in ChThreads : ChAwaitReady(t)
    \/ \E t \in ChThreads : ChAwaitSuspend(t)
    \/ \E t \in ChThreads : ChAwaitResume(t)
    \/ \E t \in ChThreads, v \in Values \cup Exceptions : ChBody(t, v)
    \/ \E t \in ChThreads : ChFinalSuspend(t)
    \/ \E t \in ChThreads : ChCompletionReturns(t)
    \/ \E t \in ChThreads : ChSymmetricTransfer(t)

ChainSpec == ChainInit /\ [][ChainNext]_vars

(***************************************************************************)
(* event_signal: a flag under a mutex with a condition variable.  Each     *)
(* thread makes one call, of set() or of wait().                           *)
(***************************************************************************)
EvThreads == 1..NumEvThreads

\* a thread that is in no wait_for / wait_for_or_throw call
NoTimedWait == [call |-> "none", timeout |-> "none", ret |-> "none"]

EventInit ==
    /\ TaskIdle /\ ChainIdle /\ AdapterIdle
    /\ m_signaled = FALSE /\ m_mutex = FALSE
    /\ evPc = [t \in EvThreads |-> "idle"]
    /\ evSpurious = 0
    /\ evTimed = [t \in EvThreads |-> NoTimedWait]

\* thread t calls event_signal::set()
EvSet(t) ==
    /\ evPc[t] = "idle"
    /\ evPc' = [evPc EXCEPT ![t] = "set_lock"]
    /\ UNCHANGED <<taskVars, chainVars, adapterVars, evTimed, m_signaled, m_mutex,
                   evSpurious>>

\* thread t calls event_signal::wait()
EvWait(t) ==
    /\ evPc[t] = "idle"
    /\ evPc' = [evPc EXCEPT ![t] = "wait_lock"]
    /\ UNCHANGED <<taskVars, chainVars, adapterVars, evTimed, m_signaled, m_mutex,
                   evSpurious>>

\* std::mutex::lock: by the lock_guard of set(), by the unique_lock of
\* wait(), or by condition_variable::wait when it wakes up
EvLock(t) ==
    /\ evPc[t] \in {"set_lock", "wait_lock", "wait_relock"}
    /\ ~m_mutex
    /\ m_mutex' = TRUE
    /\ evPc' = [evPc EXCEPT ![t] = IF @ = "set_lock" THEN "set_signal"
                                   ELSE "wait_check"]
    /\ UNCHANGED <<taskVars, chainVars, adapterVars, evTimed, m_signaled, evSpurious>>

\* the evPc in which every thread blocked in the condition variable has
\* been woken up: std::condition_variable::notify_all
notify_all(f) ==
    [u \in DOMAIN f |-> CASE f[u] = "blocked" -> "wait_relock"
                           [] f[u] = "wf_blocked" -> "wf_relock"
                           [] OTHER -> f[u]]

\* a set() that stores the flag and wakes nobody up
EvSignal_without_notify(t) ==
    /\ evPc[t] = "set_signal"
    /\ m_signaled' = TRUE
    /\ evPc' = [evPc EXCEPT ![t] = "set_done"]
    /\ m_mutex' = FALSE
    /\ UNCHANGED <<taskVars, chainVars, adapterVars, evTimed, evSpurious>>

\* set() under the mutex: m_signaled = true; m_condition.notify_all(); the
\* lock_guard then unlocks
EvSignal(t) ==
    /\ evPc[t] = "set_signal"
    /\ m_signaled' = TRUE
    /\ evPc' = [notify_all(evPc) EXCEPT ![t] = "set_done"]
    /\ m_mutex' = FALSE
    /\ UNCHANGED <<taskVars, chainVars, adapterVars, evTimed, evSpurious>>

\* m_condition.wait(mutexLock, predicate) under the mutex: when the
\* predicate m_signaled.load() holds wait() returns and the unique_lock
\* unlocks; otherwise the thread unlocks and blocks in one atomic step
EvCheck(t) ==
    /\ evPc[t] = "wait_check"
    /\ evPc' = [evPc EXCEPT ![t] = IF m_signaled THEN "wait_done"
                                   ELSE "blocked"]
    /\ m_mutex' = FALSE
    /\ UNCHANGED <<taskVars, chainVars, adapterVars, evTimed, m_signaled, evSpurious>>

\* a thread blocked in the condition variable wakes up spuriously
EvSpuriousWake(t) ==
    /\ evPc[t] = "blocked"
    /\ evSpurious < MaxSpurious
    /\ evSpurious' = evSpurious + 1
    /\ evPc' = [evPc EXCEPT ![t] = "wait_relock"]
    /\ UNCHANGED <<taskVars, chainVars, adapterVars, evTimed, m_signaled, m_mutex>>

\* the calls of event_signal that wait with a timeout
TimedCalls == {"wait_for", "wait_for_or_throw"}
\* where a thread is while the rel_time of its wait_for runs: from the call
\* of m_condition.wait_for, made with the mutex locked, until it returns
TimedPending == {"wf_check", "wf_blocked", "wf_relock"}

\* event_signal::wait_for_or_throw once its wait_for has returned ret:
\* where the call ends, in the throw of 'Wait timed out.' or in a return
wait_for_or_throw(ret) == IF ~ret THEN "wf_threw" ELSE "wf_done"

\* wait_for returns ret to thread t, which called it directly or through
\* wait_for_or_throw; the unique_lock unlocks
TimedReturn(t, ret) ==
    /\ evTimed' = [evTimed EXCEPT ![t].ret = IF ret THEN "true" ELSE "false"]
    /\ evPc' = [evPc EXCEPT ![t] =
                   IF evTimed[t].call = "wait_for_or_throw"
                   THEN wait_for_or_throw(ret) ELSE "wf_done"]
    /\ m_mutex' = FALSE

\* thread t calls event_signal::wait_for(rel_time), directly or through
\* wait_for_or_throw(rel_time)
EvWaitFor(t, c) ==
    /\ evPc[t] = "idle"
    /\ evPc' = [evPc EXCEPT ![t] = "wf_lock"]
    /\ evTimed' = [evTimed EXCEPT ![t] = [call |-> c, timeout |-> "pending",
                                           ret |-> "none"]]
    /\ UNCHANGED <<taskVars, chainVars, adapterVars, m_signaled, m_mutex,
                   evSpurious>>

\* rel_time of the wait_for call of thread t elapses (at any moment from the
\* call of m_condition.wait_for on: rel_time may be zero); whether the flag
\* was set by then is recorded
EvTimeout(t) ==
    /\ evPc[t] \in TimedPending
    /\ evTimed[t].timeout = "pending"
    /\ evTimed' = [evTimed EXCEPT ![t].timeout =
                       IF m_signaled THEN "elapsed_set" ELSE "elapsed_unset"]
    /\ UNCHANGED <<taskVars, chainVars, adapterVars, m_signaled, m_mutex,
                   evPc, evSpurious>>

\* std::mutex::lock by the unique_lock of wait_for, or by
\* condition_variable::wait_until when it wakes up or times out
EvTimedLock(t) ==
    /\ evPc[t] \in {"wf_lock", "wf_relock", "wf_timeout_relock"}
    /\ ~m_mutex
    /\ m_mutex' = TRUE
    /\ evPc' = [evPc EXCEPT ![t] = IF @ = "wf_timeout_relock" THEN "wf_final"
                                   ELSE "wf_check"]
    /\ UNCHANGED <<taskVars, chainVars, adapterVars, m_signaled, evSpurious,
                   evTimed>>

\* m_condition.wait_for(mutexLock, rel_time, predicate) under the mutex, in
\* its loop: when the predicate m_signaled.load() holds it returns true and
\* the unique_lock unlocks; otherwise the thread unlocks and blocks
EvTimedCheck(t) ==
    /\ evPc[t] = "wf_check"
    /\ IF m_signaled
       THEN TimedReturn(t, TRUE)
       ELSE /\ evPc' = [evPc EXCEPT ![t] = "wf_blocked"]
            /\ m_mutex' = FALSE
            /\ UNCHANGED evTimed
    /\ UNCHANGED <<taskVars, chainVars, adapterVars, m_signaled, evSpurious>>

\* a thread blocked in wait_until wakes up spuriously
EvTimedSpuriousWake(t) ==
    /\ evPc[t] = "wf_blocked"
    /\ evSpurious < MaxSpurious
    /\ evSpurious' = evSpurious + 1
    /\ evPc' = [evPc EXCEPT ![t] = "wf_relock"]
    /\ UNCHANGED <<taskVars, chainVars, adapterVars, m_signaled, m_mutex,
                   evTimed>>

\* wait_until of a blocked thread returns cv_status::timeout once rel_time
\* has elapsed; it has to lock the mutex again first
EvTimedOut(t) ==
    /\ evPc[t] = "wf_blocked"
    /\ evTimed[t].timeout # "pending"
    /\ evPc' = [evPc EXCEPT ![t] = "wf_timeout_relock"]
    /\ UNCHANGED <<taskVars, chainVars, adapterVars, m_signaled, m_mutex,
                   evSpurious, evTimed>>

\* a timed-out wait that returns false without evaluating the predicate
EvTimedFinal_returns_false(t) ==
    /\ evPc[t] = "wf_final"
    /\ TimedReturn(t, FALSE)
    /\ UNCHANGED <<taskVars, chainVars, adapterVars, m_signaled, evSpurious>>

\* after the timeout, under the mutex: wait_for returns predicate(), and
\* the unique_lock unlocks
EvTimedFinal(t) ==
    /\ evPc[t] = "wf_final"
    /\ TimedReturn(t, m_signaled)
    /\ UNCHANGED <<taskVars, chainVars, adapterVars, m_signaled, evSpurious>>

\* the steps a thread inside set() or wait() takes when it is scheduled
EvProgress(t) == EvLock(t) \/ EvSignal(t) \/ EvCheck(t)

EventNext ==
    \/ \E t \in EvThreads : EvSet(t)
    \/ \E t \in EvThreads : EvWait(t)
    \/ \E t \in EvThreads : EvLock(t)
    \/ \E t \in EvThreads : EvSignal(t)
    \/ \E t \in EvThreads : EvCheck(t)
    \/ \E t \in EvThreads : EvSpuriousWake(t)

\* a thread that can take a step of its call eventually takes it
EventSpec ==
    EventInit /\ [][EventNext]_vars
    /\ \A t \in EvThreads : WF_vars(EvProgress(t))

(***************************************************************************)
(* The same event_signal with threads that call set() and threads that     *)
(* wait on it with a timeout: wait_for(rel_time) and                       *)
(* wait_for_or_throw(rel_time).  Time is not measured: rel_time elapses at *)
(* some moment of the call, which EvTimeout chooses.                       *)
(***************************************************************************)
TimedNext ==
    \/ \E t \in EvThreads : EvSet(t)
    \/ \E t \in EvThreads : EvLock(t)
    \/ \E t \in EvThreads : EvSignal(t)
    \/ \E t \in EvThreads, c \in TimedCalls : EvWaitFor(t, c)
    \/ \E t \in EvThreads : EvTimeout(t)
    \/ \E t \in EvThreads : EvTimedLock(t)
    \/ \E t \in EvThreads : EvTimedCheck(t)
    \/ \E t \in EvThreads : EvTimedSpuriousWake(t)
    \/ \E t \in EvThreads : EvTimedOut(t)
    \/ \E t \in EvThreads : EvTimedFinal(t)

TimedSpec == EventInit /\ [][TimedNext]_vars

(***************************************************************************)
(* The adapters awaitable_then, awaitable_get and to_future, each handed    *)
(* the task of one producer.  The adapter starts a coroutine on the thread  *)
(* that calls it; the coroutine co_awaits the task (CoAwaitReady,           *)
(* CoAwaitSuspend, and CoAwaitResume on the calling thread or Resume on     *)
(* the completing thread) and then goes on as the adapter prescribes.       *)
(***************************************************************************)
Adapters == {"then", "get", "future"}

\* the call of wait() made by get_task_promise::get, and the call of set()
\* made by get_task_final_suspend::await_suspend
WaitCall == CHOOSE t \in EvThreads : \A u \in EvThreads : t <= u
SetCall == CHOOSE t \in EvThreads : \A u \in EvThreads : u <= t

NoOut == [kind |-> "none", val |-> NoException]

AdapterInit ==
    /\ ChainIdle /\ TaskFresh
    /\ backing \in {"source", "coroutine"}
    /\ cpc = "start"
    /\ adapter \in Adapters
    /\ callbackThrows \in (IF adapter = "then" THEN BOOLEAN ELSE {FALSE})
    /\ apc = "awaiting"
    /\ callerPc = "call"
    /\ adResult = UnsetResult /\ thenLog = <<>>
    /\ futureState = UnsetResult /\ futureSets = 0
    /\ callerOut = NoOut
    /\ m_signaled = FALSE /\ m_mutex = FALSE
    /\ evPc = [t \in EvThreads |-> "idle"]
    /\ evSpurious = 0
    /\ evTimed = [t \in EvThreads |-> NoTimedWait]

\* what the co_await expression of the adapter's coroutine yielded
LastAwait == resumeLog[Len(resumeLog)]

\* the coroutine has run to its end, or to its final suspension point
AdapterFinished == apc \in {"ended", "final_suspended"}

\* the coroutine is running on the thread that called the adapter
RunsOnCaller ==
    \/ cpc \in {"start", "suspend", "resume"}
    \/ cpc = "done" /\ LastAwait.via = "direct" /\ ~AdapterFinished

\* try { result.set_value(co_await ...) } catch (...) that keeps no failure
AdStored_drops_exception(out) ==
    IF out.kind = "return" THEN result_set_value(out.val)
    ELSE UnsetResult

\* try { result.set_value(co_await ...) }
\* catch (...) { result.set_exception(std::current_exception()) }
AdStored(out) ==
    IF out.kind = "return" THEN result_set_value(out.val)
    ELSE result_set_exception(out.val)

\* awaitable_result(awaitable_result&& other): the new object takes the
\* storage and the other is left unset
result_move(other) == [to |-> other, from |-> UnsetResult]

\* the record of an invocation of the callback: what the accessor of its
\* argument yields, the thread it ran on, and what had happened before
ThenEntry(r) ==
    [arg |-> result_read(r),
     via |-> LastAwait.via,
     completed |-> markReadyCalls > 0,
     inCall |-> callerPc = "call",
     producerPc |-> pc[Producer]]

\* a then_task that lets a failure of the awaitable end the coroutine
ThenCallback_skips_failure ==
    LET stored == AdStored(LastAwait.out)
        moved == result_move(stored)
    IN  /\ adapter = "then" /\ cpc = "done" /\ apc = "awaiting"
        /\ adResult' = moved.from
        /\ thenLog' = IF LastAwait.out.kind = "return"
                      THEN Append(thenLog, ThenEntry(moved.to))
                      ELSE thenLog
        /\ callerOut' = IF callbackThrows /\ LastAwait.via = "direct"
                        THEN [kind |-> "throw", val |-> ContinuationException]
                        ELSE callerOut
        /\ apc' = "ended"
        /\ UNCHANGED <<taskVars, chainVars, eventVars, adapter,
                       callbackThrows, callerPc, futureState, futureSets>>

\* then_task_factory::create after the co_await: the outcome is stored in
\* the awaitable_result, continuation(std::move(result)) is called, and the
\* coroutine ends; an exception of the callback leaves the coroutine through
\* promise_type::unhandled_exception, into whoever resumed it
ThenCallback ==
    LET stored == AdStored(LastAwait.out)
        moved == result_move(stored)
    IN  /\ adapter = "then" /\ cpc = "done" /\ apc = "awaiting"
        /\ adResult' = moved.from
        /\ thenLog' = Append(thenLog, ThenEntry(moved.to))
        /\ callerOut' = IF callbackThrows /\ LastAwait.via = "direct"
                        THEN [kind |-> "throw", val |-> ContinuationException]
                        ELSE callerOut
        /\ apc' = "ended"
        /\ UNCHANGED <<taskVars, chainVars, eventVars, adapter,
                       callbackThrows, callerPc, futureState, futureSets>>

\* awaitable_get's coroutine after the co_await: co_return of the value
\* (get_task_promise::return_value) or unhandled_exception
GetStore ==
    /\ adapter = "get" /\ cpc = "done" /\ apc = "awaiting"
    /\ adResult' = AdStored(LastAwait.out)
    /\ apc' = "final_suspend"
    /\ UNCHANGED <<taskVars, chainVars, eventVars, adapter, callbackThrows,
                   callerPc, thenLog, futureState, futureSets, callerOut>>

\* get_task_final_suspend::await_suspend calls m_done.set()
GetFinalSuspend ==
    /\ apc = "final_suspend"
    /\ evPc[SetCall] = "idle"
    /\ evPc' = [evPc EXCEPT ![SetCall] = "set_lock"]
    /\ apc' = "setting"
    /\ UNCHANGED <<taskVars, chainVars, m_signaled, m_mutex, evSpurious, evTimed,
                   adapter, callbackThrows, callerPc, adResult, thenLog,
                   futureState, futureSets, callerOut>>

\* m_done.set() has returned: the coroutine stays suspended at its final
\* suspension point and control returns to whoever resumed it
GetSuspended ==
    /\ apc = "setting" /\ evPc[SetCall] = "set_done"
    /\ apc' = "final_suspended"
    /\ UNCHANGED <<taskVars, chainVars, eventVars, adapter, callbackThrows,
                   callerPc, adResult, thenLog, futureState, futureSets,
                   callerOut>>

\* a to_future coroutine that fulfils the promise before it awaits
FutureFulfil_before_await ==
    /\ adapter = "future" /\ apc = "awaiting"
    /\ futureState' = IF cpc = "done" THEN AdStored(LastAwait.out)
                      ELSE result_set_value(NoException)
    /\ futureSets' = futureSets + 1
    /\ apc' = "ended"
    /\ UNCHANGED <<taskVars, chainVars, eventVars, adapter, callbackThrows,
                   callerPc, adResult, thenLog, callerOut>>

\* to_future_factory::create after the co_await: promise.set_value, or
\* promise.set_exception in the catch (...), and the coroutine ends
FutureFulfil ==
    /\ adapter = "future" /\ cpc = "done" /\ apc = "awaiting"
    /\ futureState' = AdStored(LastAwait.out)
    /\ futureSets' = futureSets + 1
    /\ apc' = "ended"
    /\ UNCHANGED <<taskVars, chainVars, eventVars, adapter, callbackThrows,
                   callerPc, adResult, thenLog, callerOut>>

\* the coroutine has suspended or finished on the calling thread: create()
\* returns; awaitable_then returns, awaitable_get goes on to get(), to_future
\* returns the future
AdapterReturns ==
    /\ callerPc = "call" /\ ~RunsOnCaller
    /\ callerPc' = CASE adapter = "then" -> "returned"
                     [] adapter = "get" -> "get"
                     [] OTHER -> "has_future"
    /\ UNCHANGED <<taskVars, chainVars, eventVars, adapter, callbackThrows,
                   apc, adResult, thenLog, futureState, futureSets,
                   callerOut>>

\* get_task_promise::get: m_done.wait()
GetWait ==
    /\ callerPc = "get"
    /\ evPc[WaitCall] = "idle"
    /\ evPc' = [evPc EXCEPT ![WaitCall] = "wait_lock"]
    /\ callerPc' = "waiting"
    /\ UNCHANGED <<taskVars, chainVars, m_signaled, m_mutex, evSpurious, evTimed,
                   adapter, callbackThrows, apc, adResult, thenLog,
                   futureState, futureSets, callerOut>>

\* a get() that reads the result without waiting for the latch
GetRead_without_wait ==
    /\ callerPc = "waiting"
    /\ callerOut' = result_read(adResult)
    /\ callerPc' = "returned"
    /\ UNCHANGED <<taskVars, chainVars, eventVars, adapter, callbackThrows,
                   apc, adResult, thenLog, futureState, futureSets>>

\* get_task_promise::get once wait() has returned: return m_result()
GetRead ==
    /\ callerPc = "waiting" /\ evPc[WaitCall] = "wait_done"
    /\ callerOut' = result_read(adResult)
    /\ callerPc' = "returned"
    /\ UNCHANGED <<taskVars, chainVars, eventVars, adapter, callbackThrows,
                   apc, adResult, thenLog, futureState, futureSets>>

\* std::future::get on the future that to_future returned: it blocks until
\* the shared state is ready, then returns the value or rethrows
FutureGet ==
    /\ callerPc = "has_future"
    /\ futureState # UnsetResult
    /\ callerOut' = result_read(futureState)
    /\ callerPc' = "returned"
    /\ UNCHANGED <<taskVars, chainVars, eventVars, adapter, callbackThrows,
                   apc, adResult, thenLog, futureState, futureSets>>

\* possibleCompletion(): the completing thread resumes the coroutine of the
\* adapter, which raises into it exactly when the callback raises
AdResume(p) ==
    Resume(p, IF callbackThrows THEN "await_throw" ELSE "await")

\* resume() returns to the completing thread once the coroutine has ended or
\* suspended; the completing call then returns to its caller
AdReturn(p) == AdapterFinished /\ Return(p)

AdapterNext ==
    \/ \E v \in Values : SetValue(Producer, v)
    \/ \E v \in Values, cex \in {NoException, StaleException} :
          TrySetValue(Producer, v, cex)
    \/ \E e \in Exceptions : SetException(Producer, e)
    \/ WriteResult(Producer)
    \/ Publish(Producer)
    \/ TryComplete(Producer)
    \/ \E v \in Values : CoReturn(Producer, v)
    \/ \E e \in Exceptions : CoThrow(Producer, e)
    \/ CoLeaveScope(Producer)
    \/ FinalSuspend(Producer)
    \/ AdResume(Producer)
    \/ AdReturn(Producer)
    \/ CoAwaitReady
    \/ \E h \in Handles : CoAwaitSuspend(h)
    \/ CoAwaitResume
    \/ ThenCallback
    \/ GetStore
    \/ GetFinalSuspend
    \/ GetSuspended
    \/ FutureFulfil
    \/ AdapterReturns
    \/ GetWait
    \/ GetRead
    \/ FutureGet
    \/ \E t \in EvThreads : EvLock(t)
    \/ \E t \in EvThreads : EvSignal(t)
    \/ \E t \in EvThreads : EvCheck(t)
    \/ \E t \in EvThreads : EvSpuriousWake(t)

AdapterSpec == AdapterInit /\ [][AdapterNext]_vars

TypeOK ==
    /\ backing \in {"source", "coroutine"}
    /\ stateOrCompletion \in {running_state, ready_state, done_state} \cup Handles
    /\ m_completionState \in {"unset", "setting", "set"}
    /\ pc \in [Completers -> {"idle", "write", "publish", "complete",
                              "final_suspend", "resume", "return", "done"}]

(***************************************************************************)
(* Helpers of the properties.                                              *)
(***************************************************************************)
\* the threads whose call wrote the result slot
Writers == {writers[i] : i \in 1..Len(writers)}
\* the completing calls that have returned to their caller
Returned == {p \in Completers : pc[p] = "done"}
\* the resumptions of handle h
ResumptionsOf(h) == {i \in 1..Len(resumptions) : resumptions[i].h = h}
\* what await_resume yields for the result that thread w supplied
Supplied(w) ==
    IF SetsException(op[w]) \/ op[w] = "co_throw"
    THEN [kind |-> "rethrow", val |-> arg[w]]
    ELSE [kind |-> "return", val |-> arg[w]]
OnlyOnce == [kind |-> "throw", val |-> "only once"]
BeforeReady == [kind |-> "throw", val |-> "before ready"]

(***************************************************************************)
(* C1: one await_suspend(h) with a non-null handle racing one completion   *)
(* lets the consumer proceed exactly once: the call returns true and h is  *)
(* resumed exactly once, by the completing call, or it returns false and   *)
(* nothing is resumed; it never throws.  (The interleavings of the two     *)
(* operations are the states with one await_suspend call that no           *)
(* consuming await_resume preceded; the exactly-once count is taken when   *)
(* the completing call has returned.)                                      *)
(***************************************************************************)
C1_ExactlyOneResumption ==
    (/\ Len(suspendLog) = 1
     /\ suspendLog[1].h # NullHandle
     /\ ~suspendLog[1].consumedBefore)
    => LET e == suspendLog[1]
       IN  /\ e.ret \in {"true", "false"}
           /\ Cardinality(ResumptionsOf(e.h)) <= 1
           /\ \A i \in 1..Len(resumptions) :
                  resumptions[i].h = e.h /\ resumptions[i].by \in Writers
           /\ e.ret = "false" => resumptions = <<>>
           /\ (Writers \cap Returned # {})
                  => (e.ret = "true" <=> Cardinality(ResumptionsOf(e.h)) = 1)

C1_Witness ==
    /\ Len(suspendLog) = 1
    /\ suspendLog[1].ret = "true"
    /\ Writers \cap Returned # {}
    /\ Cardinality(ResumptionsOf(suspendLog[1].h)) = 1

(***************************************************************************)
(* C2 (as stated): among racing set_value / set_exception / try_set_value  *)
(* / try_set_exception calls at most one writes the result slot, and every *)
(* other call fails as already completed (the strict calls throw 'already  *)
(* been completed', the try_ calls return false).                          *)
(***************************************************************************)
C2_Original ==
    Writers # {} =>
        /\ Len(writers) <= 1
        /\ \A p \in Returned \ Writers :
               op[p] \in Ops => outcome[p] \in {"false", "already_completed"}

(***************************************************************************)
(* C2 (amended): at most one call writes the result slot, the slot is      *)
(* written at most once and holds what that call supplied, and every       *)
(* other call fails: as already completed, or, for set_exception with an   *)
(* empty exception_ptr, with invalid_argument.                             *)
(***************************************************************************)
C2_SingleWriter ==
    /\ Len(writers) <= 1
    /\ (writers = <<>>) <=> (result = UnsetResult)
    /\ \A w \in Writers :
           result = [type |-> IF SetsException(op[w]) \/ op[w] = "co_throw"
                              THEN "exception" ELSE "value",
                     val |-> arg[w]]
    /\ \A p \in Returned \ Writers :
           op[p] \in Ops =>
               outcome[p] =
                   IF op[p] = "set_exception" /\ arg[p] = NoException
                   THEN "invalid_argument"
                   ELSE IF IsStrict(op[p]) THEN "already_completed"
                   ELSE "false"

C2_Witness ==
    \E w \in Writers, p \in Returned \ Writers :
        /\ w \in Returned
        /\ outcome[p] = "already_completed"
        /\ arg[p] # arg[w]

(***************************************************************************)
(* C3 (as stated): when two threads race try_set_value / try_set_exception *)
(* (non-empty exception) on one source, exactly one of the two calls       *)
(* returns true and the other returns false.                               *)
(***************************************************************************)
TryRace(p, q) ==
    /\ p # q
    /\ {p, q} \subseteq Returned
    /\ IsTry(op[p]) /\ IsTry(op[q])
    /\ arg[p] # NoException /\ arg[q] # NoException
    /\ \A r \in Completers \ {p, q} : pc[r] = "idle"

C3_Original ==
    \A p, q \in Completers :
        TryRace(p, q) =>
            \/ outcome[p] = "true" /\ outcome[q] = "false"
            \/ outcome[p] = "false" /\ outcome[q] = "true"

(***************************************************************************)
(* C3 (amended): when two threads race try_set_value / try_set_exception   *)
(* (non-empty exception) on one source, exactly one of the two calls wins  *)
(* and writes the result; the other returns false and its value or failure *)
(* is stored nowhere.  The winner returns true unless resuming the         *)
(* registered continuation raised, in which case it returns false with     *)
(* completionException set.  await_resume returns or rethrows what the     *)
(* winner supplied.                                                        *)
(***************************************************************************)
C3_OneWinner ==
    \A p, q \in Completers :
        TryRace(p, q) =>
            \E w \in {p, q} :
                LET l == CHOOSE x \in {p, q} : x # w
                IN  /\ writers = <<w>>
                    /\ outcome[l] = "false"
                    /\ outcome[w] \in {"true", "false"}
                    /\ outcome[w] = "true" <=>
                           completionException[w] = NoException
                    /\ outcome[w] = "false" =>
                           /\ completionException[w] = ContinuationException
                           /\ \E i \in 1..Len(resumptions) :
                                  resumptions[i].by = w
                    /\ result.val = arg[w]
                    /\ result.type = IF SetsException(op[w])
                                     THEN "exception" ELSE "value"
                    /\ \A i \in Consumptions : resumeLog[i].out = Supplied(w)

C3_Witness ==
    \E p, q \in Completers :
        /\ TryRace(p, q)
        /\ writers = <<p>>
        /\ outcome[p] = "true" /\ outcome[q] = "false"
        /\ arg[p] # arg[q]
        /\ Consumptions # {}

(***************************************************************************)
(* C4: if a continuation was registered before the winning set_* /         *)
(* try_set_* call exchanges the word to Ready, that call resumes it on the *)
(* completing thread, and the continuation has run by the time the call    *)
(* returns.                                                                *)
(***************************************************************************)
C4_ResumedBeforeReturn ==
    \A p \in Returned \cap Writers :
        (op[p] \in Ops /\ registeredAtExchange[p] # NullHandle) =>
            /\ Cardinality(ResumptionsOf(registeredAtExchange[p])) = 1
            /\ \A i \in ResumptionsOf(registeredAtExchange[p]) :
                   resumptions[i].by = p

C4_Witness ==
    \E p \in Returned \cap Writers :
        /\ op[p] \in Ops
        /\ registeredAtExchange[p] # NullHandle
        /\ Len(resumptions) = 1
        /\ resumptions[1].h = registeredAtExchange[p]
        /\ resumptions[1].by = p

(***************************************************************************)
(* C5: one producer that completes and one consumer that follows the       *)
(* co_await protocol: under fair scheduling every interleaving ends with   *)
(* the word Terminal and the consumer having made exactly one await_resume *)
(* call, which yielded the result (no lost wake-up, no deadlock, no double *)
(* consumption).                                                           *)
(***************************************************************************)
C5_ConsumedExactlyOnce ==
    <>[](/\ stateOrCompletion = done_state
         /\ cpc = "done"
         /\ Len(resumeLog) = 1
         /\ Cardinality(Consumptions) = 1)

C5_Witness ==
    /\ cpc = "done"
    /\ stateOrCompletion = done_state
    /\ Len(resumptions) = 1
    /\ Cardinality(Consumptions) = 1

(***************************************************************************)
(* C6: the value passed to the winning set_value / try_set_value is the    *)
(* value returned by the single successful await_resume, whether it runs   *)
(* in the resumed continuation or after the completion; an await_resume    *)
(* after it is a usage error.                                              *)
(***************************************************************************)
C6_ValueRoundTrip ==
    \A w \in Writers :
        op[w] \in {"set_value", "try_set_value"} =>
            /\ Cardinality(Consumptions) <= 1
            /\ \A i \in Consumptions :
                   /\ resumeLog[i].out = [kind |-> "return", val |-> arg[w]]
                   /\ \A j \in 1..Len(resumeLog) :
                          j > i => resumeLog[j].out.kind = "throw"

C6_Witness ==
    \E w \in Writers :
        /\ op[w] = "set_value"
        /\ Len(resumeLog) = 2
        /\ resumeLog[1] = [out |-> [kind |-> "return", val |-> arg[w]],
                           via |-> "continuation", completedBefore |-> TRUE]
        /\ resumeLog[2].out.kind = "throw"

(***************************************************************************)
(* C7: a failure E given to set_exception / try_set_exception is stored    *)
(* unchanged; the first await_resume after the completion rethrows that E  *)
(* and a second one throws the 'only once' usage error, not E.             *)
(***************************************************************************)
AfterCompletion == {i \in 1..Len(resumeLog) : resumeLog[i].completedBefore}

C7_FailureRoundTrip ==
    \A w \in Writers :
        op[w] \in {"set_exception", "try_set_exception"} =>
            /\ result = [type |-> "exception", val |-> arg[w]]
            /\ arg[w] \in Exceptions
            /\ \A i \in AfterCompletion :
                   resumeLog[i].out =
                       IF \E j \in AfterCompletion : j < i
                       THEN OnlyOnce
                       ELSE [kind |-> "rethrow", val |-> arg[w]]

C7_Witness ==
    \E w \in Writers :
        /\ op[w] = "set_exception"
        /\ Len(resumeLog) = 2
        /\ resumeLog[1].out = [kind |-> "rethrow", val |-> arg[w]]
        /\ resumeLog[1].via = "direct"
        /\ resumeLog[2].out = OnlyOnce

(***************************************************************************)
(* C8: after one await_resume has succeeded, every later await_resume      *)
(* throws the 'only once' error, whether the first consumption was made    *)
(* directly or by a resumed continuation, and the word stays Terminal.     *)
(***************************************************************************)
C8_SecondResumeThrows ==
    \A i \in Consumptions :
        /\ stateOrCompletion = done_state
        /\ \A j \in 1..Len(resumeLog) : j > i => resumeLog[j].out = OnlyOnce

C8_Witness ==
    /\ Len(resumeLog) = 2
    /\ IsConsumption(resumeLog[1])
    /\ resumeLog[1].via = "direct"
    /\ resumeLog[2].out = OnlyOnce
    /\ stateOrCompletion = done_state

(***************************************************************************)
(* C9: await_resume called while the word is Running or holds a registered *)
(* continuation throws 'may not be called before await_ready() returns     *)
(* true' and changes nothing; after such a call an await_resume on a Ready *)
(* state still yields the result.                                          *)
(***************************************************************************)
LastResume == resumeLog'[Len(resumeLog')]

C9_EarlyResumeChangesNothing ==
    [][Len(resumeLog') = Len(resumeLog) + 1 =>
          /\ stateOrCompletion \notin {ready_state, done_state} =>
                 /\ LastResume.out = BeforeReady
                 /\ stateOrCompletion' = stateOrCompletion
                 /\ result' = result
          /\ (/\ stateOrCompletion = ready_state
              /\ \E i \in 1..Len(resumeLog) : resumeLog[i].out = BeforeReady) =>
                 /\ IsConsumption(LastResume)
                 /\ \A w \in Writers : LastResume.out = Supplied(w)]_vars

C9_Witness ==
    /\ Len(suspendLog) = 1
    /\ suspendLog[1].ret = "true"
    /\ Len(resumeLog) = 2
    /\ resumeLog[1].out = BeforeReady
    /\ IsConsumption(resumeLog[2])
    /\ resumptions # <<>>

(***************************************************************************)
(* C10 (as stated): the second await_suspend call with a non-null handle   *)
(* on one task state always throws the 'only once' usage error.            *)
(***************************************************************************)
NonNullSuspends == {i \in 1..Len(suspendLog) : suspendLog[i].h # NullHandle}

C10_Original ==
    \A i, j \in NonNullSuspends : i < j => suspendLog[j].ret = "throw"

(***************************************************************************)
(* C10 (amended): a second await_suspend call with a non-null handle never *)
(* registers its handle: it throws the 'only once' usage error when no     *)
(* completion has happened yet (the first continuation is still            *)
(* registered) or when the result has been consumed, and it returns false  *)
(* without an error when the state is Ready (completed, not yet consumed). *)
(***************************************************************************)
C10_SecondSuspend ==
    \A i, j \in NonNullSuspends :
        i < j =>
            suspendLog[j].ret =
                IF suspendLog[j].completedBefore /\ ~suspendLog[j].consumedBefore
                THEN "false" ELSE "throw"

C10_Witness ==
    /\ Len(suspendLog) = 2
    /\ suspendLog[1].h # NullHandle /\ suspendLog[1].ret = "true"
    /\ suspendLog[2].h # NullHandle /\ suspendLog[2].ret = "throw"
    /\ ~suspendLog[2].completedBefore

(***************************************************************************)
(* C11: an await_suspend call made while the word is Ready (mark_ready has *)
(* run and no await_resume has consumed the result) returns false, does    *)
(* not store its handle and leaves the word Ready; the next await_resume   *)
(* yields the result already set, and no continuation is resumed on behalf *)
(* of the call: a resumption is only ever of a handle that was registered  *)
(* before the exchange, and there is none when no handle was registered.   *)
(***************************************************************************)
SuspendsAtReady ==
    {i \in 1..Len(suspendLog) :
        suspendLog[i].completedBefore /\ ~suspendLog[i].consumedBefore}

C11_SuspendOnReady ==
    /\ (markReadyCalls > 0 /\ Consumptions = {}) <=>
           stateOrCompletion = ready_state
    /\ \A i \in SuspendsAtReady :
           /\ suspendLog[i].ret = "false"
           /\ stateOrCompletion \notin Handles
           /\ Consumptions = {} => stateOrCompletion = ready_state
           /\ \A n \in 1..Len(resumptions) :
                  /\ resumptions[n].h = registeredAtExchange[resumptions[n].by]
                  /\ resumptions[n].h = RegisteredHandle
           /\ RegisteredHandle = NullHandle => resumptions = <<>>
           /\ \A j \in AfterCompletion, w \in Writers :
                  (\A k \in AfterCompletion : j <= k) =>
                      resumeLog[j].out = Supplied(w)

C11_Witness ==
    /\ Len(suspendLog) = 1
    /\ suspendLog[1].h \in Handles
    /\ suspendLog[1].completedBefore
    /\ suspendLog[1].ret = "false"
    /\ Len(resumeLog) = 1
    /\ resumeLog[1].via = "direct"
    /\ IsConsumption(resumeLog[1])
    /\ resumptions = <<>>
    /\ \A p \in Completers : pc[p] \in {"idle", "done"}

(***************************************************************************)
(* C12: await_ready returns true exactly when the word it loads is Ready   *)
(* or Terminal, and false when the word is Running or holds a registered   *)
(* continuation; a call changes nothing of the task state; on a task whose *)
(* producer (a fresh task_completion_source, or a coroutine that has not   *)
(* finished) has done nothing yet it returns false.                        *)
(***************************************************************************)
C12_ReadyIffCompleted ==
    /\ [](\A i \in 1..Len(readyLog) :
             LET e == readyLog[i]
             IN  /\ e.ret <=> e.observed \in {ready_state, done_state}
                 /\ (e.observed = running_state \/ e.observed \in Handles)
                        => ~e.ret
                 /\ e.fresh => ~e.ret)
    /\ [][readyLog' # readyLog =>
             UNCHANGED <<stateOrCompletion, result, m_completionState,
                         producerVars, suspendLog, resumeLog, resumptions>>]_vars

C12_Witness ==
    /\ Len(readyLog) = 2
    /\ readyLog[1].fresh /\ ~readyLog[1].ret
    /\ readyLog[2].observed = done_state /\ readyLog[2].ret
    /\ Len(suspendLog) = 1 /\ suspendLog[1].ret = "true"

(***************************************************************************)
(* C13: once a set_value / set_exception / try_set_value /                 *)
(* try_set_exception call has returned successfully, await_ready returns   *)
(* true; and readiness is monotone: once the task is ready (a call of      *)
(* await_ready has returned, or would return, true) it is ready in every   *)
(* later state, also after the result has been consumed.                   *)
(***************************************************************************)
SucceededCalls ==
    {p \in Returned : op[p] \in Ops /\ outcome[p] \in {"ok", "true"}}

C13_ReadyOnceCompleted ==
    /\ [](/\ SucceededCalls # {} => await_ready(stateOrCompletion)
          /\ \A i \in 1..Len(readyLog) :
                 /\ readyLog[i].returnedBefore => readyLog[i].ret
                 /\ readyLog[i].ret =>
                        /\ await_ready(stateOrCompletion)
                        /\ \A j \in i..Len(readyLog) : readyLog[j].ret)
    /\ [][await_ready(stateOrCompletion) =>
             await_ready(stateOrCompletion')]_vars

C13_Witness ==
    /\ SucceededCalls # {}
    /\ Len(readyLog) = 2
    /\ readyLog[1].returnedBefore /\ readyLog[1].ret
    /\ readyLog[1].observed = ready_state
    /\ readyLog[2].observed = done_state /\ readyLog[2].ret
    /\ Consumptions # {}

(***************************************************************************)
(* C14 (as stated): a call made on a source whose completion flag is set   *)
(* fails, the strict set_value / set_exception with 'already been          *)
(* completed' and the try_set_* family by returning false, and changes     *)
(* neither the stored result, nor the flag, nor the word, and resumes      *)
(* nothing.                                                                *)
(***************************************************************************)
\* thread p makes its call in this step
Calls(p) == pc[p] = "idle" /\ pc'[p] # "idle"
\* the step leaves the shared state of the source and its task as it was
SharedStateUnchanged ==
    UNCHANGED <<result, m_completionState, stateOrCompletion, writers,
                markReadyCalls, resumptions>>

C14_Original ==
    [][\A p \in Completers :
          (Calls(p) /\ m_completionState = "set") =>
              /\ outcome'[p] = IF IsStrict(op'[p])
                               THEN "already_completed" ELSE "false"
              /\ SharedStateUnchanged]_vars

(***************************************************************************)
(* C14 (amended): a call made on a source whose completion flag is set     *)
(* fails: set_exception with an empty exception_ptr throws                 *)
(* invalid_argument, any other strict set_value / set_exception throws     *)
(* 'already been completed', and the try_set_* family returns false; the   *)
(* failed call changes neither the stored result, nor the flag, nor the    *)
(* word, and resumes nothing.                                              *)
(***************************************************************************)
C14_FailedCallChangesNothing ==
    [][\A p \in Completers :
          (Calls(p) /\ m_completionState = "set") =>
              /\ pc'[p] = "done"
              /\ outcome'[p] =
                     IF op'[p] = "set_exception" /\ arg'[p] = NoException
                     THEN "invalid_argument"
                     ELSE IF IsStrict(op'[p]) THEN "already_completed"
                     ELSE "false"
              /\ SharedStateUnchanged]_vars

C14_Witness ==
    \E w, p \in Returned :
        /\ writers = <<w>> /\ outcome[w] = "ok"
        /\ p > w /\ op[p] = "set_value" /\ outcome[p] = "already_completed"
        /\ m_completionState = "set"
        /\ result = result_set_value(arg[w]) /\ arg[p] # arg[w]
        /\ stateOrCompletion = ready_state /\ resumptions = <<>>

(***************************************************************************)
(* C15: while a thread has claimed the source (flag 'setting') and has not *)
(* finished writing the result, a try_set_value call of another thread     *)
(* returns false in its one step, without waiting for the writer, and      *)
(* leaves the result slot (and the rest of the shared state) untouched.    *)
(***************************************************************************)
\* some thread has claimed the source and not yet written the result
WriterPartway ==
    m_completionState = "setting" /\ \E w \in Completers : pc[w] = "write"

C15_LoserDoesNotWait ==
    [][\A p \in Completers :
          (Calls(p) /\ WriterPartway /\ op'[p] = "try_set_value") =>
              /\ pc'[p] = "done"
              /\ outcome'[p] = "false"
              /\ result' = result /\ result = UnsetResult
              /\ SharedStateUnchanged
              /\ \A w \in Completers \ {p} : pc'[w] = pc[w]]_vars

C15_Witness ==
    /\ WriterPartway
    /\ result = UnsetResult
    /\ \E p \in Returned : op[p] = "try_set_value" /\ outcome[p] = "false"

(***************************************************************************)
(* C16 (as stated): at the moment a set_value / set_exception call throws  *)
(* 'already been completed', or a try_set_* call with a non-empty argument *)
(* returns false with its completionException empty, the source has been   *)
(* completed: the winner's result is written and await_ready returns true. *)
(***************************************************************************)
\* the call of thread p returns (or throws) in this step
Returns(p) == outcome[p] = "none" /\ outcome'[p] # "none"
\* ... reporting that the source was already completed
FailsAsCompleted(p) ==
    /\ Returns(p)
    /\ \/ outcome'[p] = "already_completed"
       \/ /\ IsTry(op'[p]) \/ IsDeprecated(op'[p])
          /\ arg'[p] # NoException
          /\ outcome'[p] = "false"
          /\ completionException'[p] = NoException

C16_Original ==
    [][\A p \in Completers :
          FailsAsCompleted(p) =>
              /\ result' # UnsetResult
              /\ await_ready(stateOrCompletion')]_vars

(***************************************************************************)
(* C16 (amended): at the moment a set_value / set_exception call throws    *)
(* 'already been completed', or a try_set_* call with a non-empty argument *)
(* returns false with its completionException empty, another call has      *)
(* claimed the source (the flag is 'setting' or 'set'); the failing call   *)
(* has written nothing and never does, and the claimant is the only call   *)
(* that writes the result.  The claimant may not have written the result   *)
(* yet, and await_ready may still return false.                            *)
(***************************************************************************)
C16_FailureMeansClaimed ==
    [][\A p \in Completers :
          FailsAsCompleted(p) =>
              /\ m_completionState' \in {"setting", "set"}
              /\ m_completionState' = m_completionState
              /\ p \notin Writers /\ writers' = writers
              /\ \E w \in Completers \ {p} :
                     /\ pc'[w] \notin {"idle"} /\ arg'[w] # NoException
                     /\ writers' \in {<<>>, <<w>>}
                     /\ pc'[w] = "write" <=> writers' = <<>>
                     /\ pc'[w] \in {"write", "publish"} <=>
                            m_completionState' = "setting"
                     /\ pc'[w] = "write" <=> result' = UnsetResult
                     /\ await_ready(stateOrCompletion') =>
                            pc'[w] \in {"resume", "return", "done"}]_vars

C16_Witness ==
    /\ m_completionState = "setting"
    /\ result = UnsetResult
    /\ ~await_ready(stateOrCompletion)
    /\ \E p \in Returned :
           op[p] = "set_value" /\ outcome[p] = "already_completed"

(***************************************************************************)
(* C17 (as stated): when a try_set_value / try_set_exception call with a   *)
(* completionException out-parameter wins and resuming the registered      *)
(* continuation raises, the call returns false and its completionException *)
(* holds exactly what the continuation raised; the result it wrote stays   *)
(* committed, the word is Ready or Terminal and never Running again, and   *)
(* every call made after it fails as already completed (the strict ones    *)
(* throw 'already been completed', the try_ ones return false).            *)
(***************************************************************************)
\* the resumptions thread w made in which the continuation raised
RaisedBy(w) ==
    {n \in 1..Len(resumptions) :
        resumptions[n].by = w /\ resumptions[n].raised # NoException}
\* the try_set_* calls that won, resumed a continuation that raised, and
\* have returned
RaisedWinners ==
    {w \in Returned \cap Writers : IsTry(op[w]) /\ RaisedBy(w) # {}}

ResultStaysCommitted ==
    \A w \in RaisedWinners :
        /\ outcome[w] = "false"
        /\ \A n \in RaisedBy(w) :
               completionException[w] = resumptions[n].raised
        /\ writers = <<w>>
        /\ result = IF SetsException(op[w]) THEN result_set_exception(arg[w])
                    ELSE result_set_value(arg[w])
        /\ m_completionState = "set"
        /\ stateOrCompletion \in {ready_state, done_state}

C17_Original ==
    /\ []ResultStaysCommitted
    /\ [][\A p \in Completers :
             (Calls(p) /\ RaisedWinners # {}) =>
                 /\ outcome'[p] = IF IsStrict(op'[p])
                                  THEN "already_completed" ELSE "false"
                 /\ SharedStateUnchanged]_vars

(***************************************************************************)
(* C17 (amended): the same, except that among the calls made afterwards    *)
(* set_exception with an empty exception_ptr fails with invalid_argument   *)
(* rather than as already completed.                                       *)
(***************************************************************************)
C17_RaisingContinuation ==
    /\ []ResultStaysCommitted
    /\ [][\A p \in Completers :
             (Calls(p) /\ RaisedWinners # {}) =>
                 /\ outcome'[p] =
                        IF op'[p] = "set_exception" /\ arg'[p] = NoException
                        THEN "invalid_argument"
                        ELSE IF IsStrict(op'[p]) THEN "already_completed"
                        ELSE "false"
                 /\ SharedStateUnchanged]_vars

C17_Witness ==
    \E w \in RaisedWinners, p \in Returned :
        /\ op[w] = "try_set_value"
        /\ completionException[w] = ContinuationException
        /\ stateOrCompletion = done_state
        /\ p > w /\ op[p] = "set_value" /\ outcome[p] = "already_completed"

(***************************************************************************)
(* C18: after a try_set_value / try_set_exception call with a              *)
(* completionException out-parameter has returned, its completionException *)
(* is non-empty if and only if the call resumed a continuation that        *)
(* raised; it is empty when the call returned true and when it returned    *)
(* false for having lost the race, whatever it held on entry.              *)
(***************************************************************************)
C18_CompletionExceptionIffRaised ==
    \A p \in Returned :
        IsTry(op[p]) =>
            /\ completionException[p] # NoException <=> RaisedBy(p) # {}
            /\ outcome[p] = "true" => completionException[p] = NoException
            /\ (outcome[p] = "false" /\ p \notin Writers) =>
                   completionException[p] = NoException

(***************************************************************************)
(* C19: a deprecated try_set_value / try_set_exception overload (no        *)
(* completionException parameter) returns false only when it was given an  *)
(* empty exception_ptr or the source was already completed, that is,       *)
(* another call had claimed it; it returns true when it completed the      *)
(* source itself; and when resuming the continuation raises it terminates  *)
(* the process instead of returning false.                                 *)
(***************************************************************************)
\* the calls other than p that have claimed the source
ClaimedByOther(p) ==
    {w \in Completers \ {p} : pc[w] = "write" \/ w \in Writers}

EmptyCalls ==
    {p \in Returned : SetsException(op[p]) /\ arg[p] = NoException}

C20_EmptyExceptionRejected ==
    /\ [](/\ m_completionState = "unset" =>
                 ~await_ready(stateOrCompletion) /\ writers = <<>>
          /\ \A p \in EmptyCalls :
                 /\ p \notin Writers /\ RaisedBy(p) = {}
                 /\ outcome[p] = IF op[p] = "set_exception"
                                 THEN "invalid_argument" ELSE "false"
          /\ \A q \in Returned \cap Writers :
                 /\ outcome[q] \in {"ok", "true"} <=> RaisedBy(q) = {}
                 /\ await_ready(stateOrCompletion))
    /\ [][\A p \in Completers :
             (Calls(p) /\ SetsException(op'[p]) /\ arg'[p] = NoException) =>
                 /\ pc'[p] = "done"
                 /\ SharedStateUnchanged
                 /\ m_completionState = "unset" =>
                        /\ m_completionState' = "unset"
                        /\ ~await_ready(stateOrCompletion')]_vars
    /\ [][\A q \in Completers :
             (/\ Calls(q) /\ arg'[q] # NoException
              /\ EmptyCalls # {} /\ m_completionState = "unset") =>
                 /\ pc'[q] = "write"
                 /\ m_completionState' = "setting"]_vars

C20_Witness ==
    \E p \in EmptyCalls, q \in Returned \cap Writers :
        /\ p < q
        /\ op[p] = "set_exception" /\ outcome[p] = "invalid_argument"
        /\ op[q] = "set_value" /\ outcome[q] = "ok"
        /\ \A r \in Completers : r < q => r \in EmptyCalls
        /\ resumptions = <<>>

LateStep(p) ==
    /\ taskHandles = 0
    /\ pc[p] \in {"idle", "write", "publish", "complete", "final_suspend"}
    /\ pc'[p] # pc[p]

\* what a call reports when it fails
ErrorOutcomes == {"already_completed", "invalid_argument", "rethrow",
                  "terminate"}

C23_BoundedStackDepth ==
    \A t \in ChThreads : Len(chStack[t]) <= 2

\* the calls of wait() that have not returned, and the calls of set()
EvWaiting == {t \in EvThreads :
                 evPc[t] \in {"wait_lock", "wait_check", "blocked",
                              "wait_relock"}}
EvSetCalls == {t \in EvThreads :
                  evPc[t] \in {"set_lock", "set_signal", "set_done"}}

(***************************************************************************)
(* C27: event_signal is a one-way latch: once set() has stored the flag    *)
(* it stays set; the flag is set only by set(); a wait() returns only      *)
(* when the flag is set; and once some thread has called set(), every      *)
(* wait(), whether it started before or after, returns (no lost wake-up,   *)
(* one set() releases every waiter).                                       *)
(***************************************************************************)
C27_OneWayLatch ==
    /\ [][m_signaled => m_signaled']_vars
    /\ [](m_signaled <=> \E s \in EvThreads : evPc[s] = "set_done")
    /\ [](\A t \in EvThreads : evPc[t] = "wait_done" => m_signaled)
    /\ \A t \in EvThreads :
          (t \in EvWaiting /\ EvSetCalls # {}) ~> (evPc[t] = "wait_done")

\* one set() has woken up two threads that were blocked in wait()
C27_Witness ==
    /\ evSpurious = 0
    /\ Cardinality({s \in EvThreads : evPc[s] = "set_done"}) = 1
    /\ EvSetCalls = {s \in EvThreads : evPc[s] = "set_done"}
    /\ Cardinality({t \in EvThreads : evPc[t] = "wait_relock"}) >= 2
    /\ m_signaled

\* the coroutine of the adapter suspended in its co_await (await_suspend
\* returned true)
AdapterSuspended ==
    \E i \in 1..Len(suspendLog) : suspendLog[i].ret = "true"

(***************************************************************************)
(* C24: awaitable_then invokes the callback exactly once per call: inline, *)
(* before awaitable_then returns, when the co_await finds the awaitable    *)
(* complete; otherwise later, on the thread that completes the awaitable   *)
(* and within its completing call; never before the awaitable has          *)
(* completed; and exactly once also when the awaitable fails.              *)
(***************************************************************************)
C24_CallbackExactlyOnce ==
    adapter = "then" =>
        /\ Len(thenLog) <= 1
        /\ apc = "ended" <=> Len(thenLog) = 1
        /\ (callerPc = "returned" /\ ~AdapterSuspended) => Len(thenLog) = 1
        /\ (pc[Producer] = "done" /\ resumptions # <<>>) => Len(thenLog) = 1
        /\ \A i \in 1..Len(thenLog) :
              /\ thenLog[i].completed
              /\ thenLog[i].via = "direct" <=> ~AdapterSuspended
              /\ thenLog[i].via = "direct" => thenLog[i].inCall
              /\ thenLog[i].via = "continuation" =>
                    /\ thenLog[i].producerPc = "return"
                    /\ Len(resumptions) = 1
                    /\ resumptions[1].by = Producer

\* the awaitable failed after the coroutine had suspended: the callback ran
\* once, on the completing thread
C24_Witness ==
    /\ adapter = "then"
    /\ AdapterSuspended
    /\ Len(thenLog) = 1
    /\ thenLog[1].via = "continuation"
    /\ thenLog[1].arg.kind = "rethrow"
    /\ pc[Producer] = "done" /\ callerPc = "returned"

(***************************************************************************)
(* C25: the awaitable_result handed to the callback of awaitable_then      *)
(* yields exactly the value the awaitable produced, or rethrows exactly    *)
(* the exception it failed with; the failure is delivered through that     *)
(* accessor only: it is thrown neither out of awaitable_then nor out of    *)
(* the completing call.                                                    *)
(***************************************************************************)
C25_ResultThroughAccessor ==
    adapter = "then" =>
        /\ \A i \in 1..Len(thenLog) :
              /\ thenLog[i].arg = result_read(result)
              /\ thenLog[i].arg.kind \in {"return", "rethrow"}
        /\ ~callbackThrows =>
              /\ callerOut = NoOut
              /\ outcome[Producer] \in {"none", "ok", "true"}

\* set_exception has returned normally after the callback received the
\* failure, and awaitable_then had returned normally
C25_Witness ==
    /\ adapter = "then" /\ ~callbackThrows
    /\ backing = "source" /\ op[Producer] = "set_exception"
    /\ Len(thenLog) = 1
    /\ thenLog[1].arg = [kind |-> "rethrow", val |-> arg[Producer]]
    /\ outcome[Producer] = "ok"
    /\ callerPc = "returned" /\ callerOut = NoOut

(***************************************************************************)
(* C26: awaitable_get returns only after the awaited operation has         *)
(* completed and its wrapper coroutine has reached its final suspension    *)
(* point, where the latch is set; it returns the value of the awaitable    *)
(* or rethrows its exception, and never reads an unset result, whichever   *)
(* thread resumed the coroutine.                                           *)
(***************************************************************************)
C26_GetAfterLatch ==
    adapter = "get" =>
        /\ evPc[WaitCall] = "wait_done" =>
              /\ m_signaled
              /\ adResult # UnsetResult
              /\ apc \in {"setting", "final_suspended"}
        /\ callerPc = "returned" =>
              /\ markReadyCalls > 0 /\ cpc = "done"
              /\ m_signaled
              /\ apc \in {"setting", "final_suspended"}
              /\ callerOut = result_read(result)
              /\ callerOut.kind \in {"return", "rethrow"}

\* the coroutine was resumed by the completing thread while the caller was
\* blocked in wait(); get() then returned the value
C26_Witness ==
    /\ adapter = "get"
    /\ callerPc = "returned"
    /\ LastAwait.via = "continuation"
    /\ evSpurious = 0
    /\ callerOut.kind = "return" /\ callerOut.val \in Values

(***************************************************************************)
(* C28: the std::future returned by to_future is fulfilled exactly once,   *)
(* only after the awaitable has completed, with the awaitable's value or   *)
(* its exception; future.get() does not return before the awaitable has    *)
(* been resumed.                                                           *)
(***************************************************************************)
C28_FutureFulfilledOnce ==
    adapter = "future" =>
        /\ futureSets <= 1
        /\ futureSets = 1 <=> futureState # UnsetResult
        /\ apc = "ended" <=> futureSets = 1
        /\ futureState # UnsetResult =>
              /\ markReadyCalls > 0 /\ cpc = "done"
              /\ result_read(futureState) = result_read(result)
              /\ futureState.type \in {"value", "exception"}
        /\ callerPc = "returned" =>
              /\ cpc = "done"
              /\ callerOut = result_read(result)

\* future.get() rethrew the exception of an awaitable that failed after the
\* coroutine had suspended
C28_Witness ==
    /\ adapter = "future"
    /\ AdapterSuspended
    /\ callerPc = "returned"
    /\ callerOut.kind = "rethrow" /\ callerOut.val \in Exceptions
    /\ futureSets = 1

(***************************************************************************)
(* C29: for a coroutine-backed task, readiness is published and the        *)
(* registered continuation is resumed only at final_suspend: by then the   *)
(* body has stored its result and its local objects have been destroyed,   *)
(* so no continuation and no await_ready ever sees the task complete while *)
(* the locals of the coroutine are alive.                                  *)
(***************************************************************************)
C29_PublishedAtFinalSuspend ==
    (/\ backing = "coroutine"
     /\ \/ await_ready(stateOrCompletion) \/ markReadyCalls > 0
        \/ resumptions # <<>> \/ Consumptions # {})
    => /\ scopeDestroyed
       /\ result # UnsetResult
       /\ \E p \in Completers : pc[p] \in {"resume", "return", "done"}

\* the coroutine finished with a handle registered: its continuation was
\* resumed from final_suspend and consumed the result
C29_Witness ==
    /\ backing = "coroutine"
    /\ scopeDestroyed
    /\ Len(resumptions) = 1
    /\ \E i \in Consumptions : resumeLog[i].via = "continuation"
    /\ \E p \in Completers : pc[p] = "done" /\ op[p] = "co_return"

\* the step is an await_resume call that yielded the result
ConsumingResume ==
    /\ Len(resumeLog') = Len(resumeLog) + 1
    /\ IsConsumption(resumeLog'[Len(resumeLog')])

(***************************************************************************)
(* C30: stateOrCompletion only ever goes from Running to a registered      *)
(* continuation handle, from Running to Ready, from a registered handle    *)
(* to Ready, and from Ready to Terminal; Terminal is never left, Ready is  *)
(* left only by an await_resume that yields the result, and a registered   *)
(* handle is neither replaced by another handle nor reverted to Running.   *)
(***************************************************************************)
C30_WordTransitions ==
    [][stateOrCompletion' # stateOrCompletion =>
          \/ /\ stateOrCompletion = running_state
             /\ is_completion(stateOrCompletion') \/ stateOrCompletion' = ready_state
          \/ /\ is_completion(stateOrCompletion)
             /\ stateOrCompletion' = ready_state
          \/ /\ stateOrCompletion = ready_state
             /\ stateOrCompletion' = done_state
             /\ ConsumingResume]_vars

\* the word has gone Running -> handle -> Ready -> Terminal, and a later
\* await_resume was refused without moving it
C30_Witness ==
    /\ stateOrCompletion = done_state
    /\ RegisteredHandle # NullHandle
    /\ markReadyCalls = 1
    /\ Consumptions # {}
    /\ \E i \in 1..Len(resumeLog) : resumeLog[i].out = OnlyOnce

\* what awaitable_result::operator() raises on an unset slot
NotYetAvailable ==
    [kind |-> "throw", val |-> "Awaitable result is not yet available."]

(***************************************************************************)
(* C31: whenever stateOrCompletion is Ready the result slot holds a value  *)
(* or an exception, never unset, for a task_completion_source and for a    *)
(* coroutine alike; so no await_resume, and in particular no successful    *)
(* one, ever reaches the 'Awaitable result is not yet available' branch    *)
(* of awaitable_result::operator().                                        *)
(***************************************************************************)
C31_ReadyHasResult ==
    /\ stateOrCompletion = ready_state =>
          /\ result.type \in {"value", "exception"}
          /\ result_read(result) # NotYetAvailable
    /\ \A i \in 1..Len(resumeLog) : resumeLog[i].out # NotYetAvailable
    /\ \A i \in Consumptions : resumeLog[i].out = result_read(result)

\* the coroutine has finished and the word is Ready with the value stored,
\* after a raw await_resume had been refused for coming too early
C31_Witness ==
    /\ backing = "coroutine"
    /\ stateOrCompletion = ready_state
    /\ result.type = "value"
    /\ \E i \in 1..Len(resumeLog) : resumeLog[i].out = BeforeReady

\* the steps m_completionState can take
FlagSteps == {<<"unset", "setting">>, <<"setting", "set">>}

\* a thread stands at the assert that opens try_complete
AtTryComplete(p) == pc[p] = "complete"

(***************************************************************************)
(* C32: the completion flag of a task_completion_source moves only from    *)
(* unset to setting and from setting to set, never back; the word is Ready *)
(* or Terminal only while the flag is set; and whenever a thread enters    *)
(* try_complete the flag is set, so its assertion holds however the        *)
(* completing calls race.                                                  *)
(***************************************************************************)
C32_FlagMonotone ==
    /\ [][m_completionState' # m_completionState =>
            <<m_completionState, m_completionState'>> \in FlagSteps]_vars
    /\ [](stateOrCompletion \in {ready_state, done_state} =>
            m_completionState = "set")
    /\ [](\A p \in Completers : AtTryComplete(p) => m_completionState = "set")

\* one call stands at the assertion of try_complete after another call,
\* racing it, failed to claim the flag
C32_Witness ==
    \E p, q \in Completers :
        /\ p # q
        /\ AtTryComplete(p)
        /\ pc[q] = "done" /\ ~tryRet[q]
        /\ op[q] \in Ops
        /\ m_completionState = "set"

\* task_state::is_done
is_done(word) == word = done_state

\* a thread is about to call task_state::mark_ready: it stands at
\* try_complete, or at the final_suspend of a coroutine whose task_state
\* is still alive
BeforeMarkReady(p) ==
    \/ pc[p] = "complete"
    \/ pc[p] = "final_suspend" /\ ~expired

(***************************************************************************)
(* C33: mark_ready runs at most once on a task_state, and never on one     *)
(* that is Terminal: until it has run the word is neither Ready nor        *)
(* Terminal, so the one exchange overwrites neither and the assertion      *)
(* !is_done() holds for every thread about to call it, however completers  *)
(* and consumers interleave.                                               *)
(***************************************************************************)
C33_MarkReadyOnce ==
    /\ markReadyCalls <= 1
    /\ markReadyCalls = 0 =>
          stateOrCompletion \notin {ready_state, done_state}
    /\ \A p \in Completers :
          BeforeMarkReady(p) =>
             /\ markReadyCalls = 0
             /\ ~is_done(stateOrCompletion)

\* two completing calls on one source have returned, mark_ready ran in one
\* of them only, and the consumer has since taken the result
C33_Witness ==
    /\ backing = "source"
    /\ markReadyCalls = 1
    /\ stateOrCompletion = done_state
    /\ \A p \in Completers : pc[p] = "done" /\ op[p] \in Ops
    /\ Consumptions # {}

\* the await_resume calls whose compare_exchange moved the word to done
AwWinners ==
    {t \in Awaiters : \/ awPc[t] = "read"
                      \/ awPc[t] = "done" /\ IsConsumption([out |-> awOut[t]])}
\* the await_resume calls that have returned or thrown
AwReturned == {t \in Awaiters : awPc[t] = "done"}

(***************************************************************************)
(* C34: when threads holding task objects of the same source call          *)
(* await_resume concurrently once the state is Ready, exactly one call     *)
(* moves the word to Terminal and returns (or rethrows) the stored result; *)
(* every other such call throws the 'only once' error; and the result slot *)
(* is read once, by that one call.                                         *)
(***************************************************************************)
C34_OneAwaiterConsumes ==
    /\ [](Cardinality(AwWinners) <= 1)
    /\ [](stateOrCompletion = done_state <=> AwWinners # {})
    /\ [](resultReads = Cardinality(AwWinners \cap AwReturned))
    /\ [](\A t \in AwReturned :
             \/ t \in AwWinners /\ awOut[t] = result_read(result)
                                /\ awOut[t] # NotYetAvailable
             \/ awOut[t] = OnlyOnce /\ AwWinners # {}
             \/ awOut[t] = BeforeReady)
    /\ [][\A t \in Awaiters :
             (awPc[t] = "idle" /\ awPc'[t] # "idle") =>
                CASE stateOrCompletion = ready_state ->
                        awPc'[t] = "read" /\ stateOrCompletion' = done_state
                  [] stateOrCompletion = done_state ->
                        awOut'[t] = OnlyOnce /\ UNCHANGED stateOrCompletion
                  [] OTHER ->
                        awOut'[t] = BeforeReady /\ UNCHANGED stateOrCompletion
         ]_vars

\* two task objects: the call through one has moved the word to done and
\* not yet read the result when the call through the other throws 'only once'
C34_Witness ==
    /\ taskHandles = MaxHandles
    /\ \E t, u \in Awaiters :
          /\ awPc[t] = "read"
          /\ awPc[u] = "done" /\ awOut[u] = OnlyOnce
    /\ resultReads = 0

\* the await_suspend calls that returned true
TrueSuspends == {i \in 1..Len(suspendLog) : suspendLog[i].ret = "true"}
\* the await_suspend call this step makes
LastSuspend == suspendLog'[Len(suspendLog')]

(***************************************************************************)
(* C35: an await_suspend call that throws or returns false leaves the word *)
(* as it was, so a continuation registered earlier stays registered until  *)
(* the completion, which resumes that handle and no other, once; at most   *)
(* one await_suspend call ever returns true, also when two calls with      *)
(* different handles race on a Running state.                              *)
(***************************************************************************)
C35_FailedSuspendKeepsContinuation ==
    /\ [][Len(suspendLog') = Len(suspendLog) + 1 =>
            /\ LastSuspend.ret # "true" => stateOrCompletion' = stateOrCompletion
            /\ LastSuspend.ret = "true" =>
                  /\ stateOrCompletion = running_state
                  /\ stateOrCompletion' = LastSuspend.h]_vars
    /\ [](Cardinality(TrueSuspends) <= 1)
    /\ []((TrueSuspends # {} /\ markReadyCalls = 0) =>
             stateOrCompletion = RegisteredHandle)
    /\ [](/\ Len(resumptions) <= 1
          /\ \A i \in 1..Len(resumptions) :
                 /\ TrueSuspends # {}
                 /\ resumptions[i].h = RegisteredHandle)
    /\ [](\A p \in Returned :
             (p \in Writers /\ TrueSuspends # {}) =>
                Cardinality(ResumptionsOf(RegisteredHandle)) = 1)

\* two calls with different handles: the first registered its handle, the
\* second threw, and the completion has resumed the first handle
C35_Witness ==
    /\ Len(suspendLog) = 2
    /\ suspendLog[1].ret = "true" /\ suspendLog[2].ret = "throw"
    /\ suspendLog[2].h \in Handles \ {suspendLog[1].h}
    /\ Len(resumptions) = 1 /\ resumptions[1].h = suspendLog[1].h
    /\ Writers \cap Returned # {}

\* every value the word can hold
Words == {running_state, ready_state, done_state} \cup Handles

(***************************************************************************)
(* C36: await_suspend with a handle whose address is null returns false    *)
(* whatever the word holds (Running, a registered handle, Ready or         *)
(* Terminal), never throws and leaves the word as it was; so the word is   *)
(* null only after an await_resume has consumed the result, never because  *)
(* a null handle was stored as the continuation.                           *)
(***************************************************************************)
C36_NullHandleRunsNow ==
    /\ [][(/\ Len(suspendLog') = Len(suspendLog) + 1
           /\ LastSuspend.h = NullHandle)
          => /\ LastSuspend.ret = "false"
             /\ stateOrCompletion' = stateOrCompletion]_vars
    /\ [](\A word \in Words :
             await_suspend(word, NullHandle) =
                 [stored |-> word, ret |-> "false"])
    /\ [](stateOrCompletion \in Words)
    /\ [](is_done(stateOrCompletion) => Consumptions # {})
    /\ [](RegisteredHandle # NullHandle <=> TrueSuspends # {})

\* a null handle was passed while the task was Running: the call returned
\* false, and the call after it still found Running and registered its handle
C36_Witness ==
    /\ Len(suspendLog) = 2
    /\ suspendLog[1].h = NullHandle /\ suspendLog[1].ret = "false"
    /\ ~suspendLog[1].completedBefore
    /\ suspendLog[2].ret = "true"
    /\ stateOrCompletion = suspendLog[2].h

\* the strict set_value / set_exception calls that have returned or thrown
StrictReturned == {p \in Returned : IsStrict(op[p])}

(***************************************************************************)
(* C37: a strict set_value / set_exception call that won the completion    *)
(* race and whose resumption of the waiting continuation raised rethrows   *)
(* the continuation's exception and not 'already been completed'; a strict *)
(* call throws 'already been completed' only when it did not win the race  *)
(* (another call had claimed the source first).                            *)
(***************************************************************************)
C37_StrictWinnerRethrows ==
    \A p \in StrictReturned :
        /\ (p \in Writers /\ RaisedBy(p) # {}) =>
              /\ outcome[p] = "rethrow"
              /\ \A n \in RaisedBy(p) :
                     completionException[p] = resumptions[n].raised
        /\ (p \in Writers /\ RaisedBy(p) = {}) => outcome[p] = "ok"
        /\ outcome[p] = "rethrow" => p \in Writers /\ RaisedBy(p) # {}
        /\ outcome[p] = "already_completed" =>
              /\ p \notin Writers
              /\ RaisedBy(p) = {}
              /\ ClaimedByOther(p) # {}

\* set_exception won, resumed a continuation that raised and rethrew its
\* exception; the set_value it raced threw 'already been completed'
C37_Witness ==
    \E w, p \in StrictReturned :
        /\ op[w] = "set_exception" /\ w \in Writers
        /\ RaisedBy(w) # {} /\ outcome[w] = "rethrow"
        /\ completionException[w] = ContinuationException
        /\ op[p] = "set_value" /\ outcome[p] = "already_completed"

\* the threads whose wait_for has returned
TimedReturned == {t \in EvThreads : evTimed[t].ret # "none"}
\* the flag is written by the step of set() that holds the mutex, only
OnlySetWrites ==
    m_signaled' # m_signaled =>
        \E s \in EvThreads : evPc[s] = "set_signal" /\ evPc'[s] = "set_done"
\* wait_for_or_throw throws 'Wait timed out.' exactly when its wait_for
\* returned false; a direct wait_for call never throws
ThrowsIffFalse ==
    \A t \in TimedReturned :
        evPc[t] = "wf_threw" <=>
            (evTimed[t].call = "wait_for_or_throw" /\ evTimed[t].ret = "false")

(***************************************************************************)
(* C38 (as stated): wait_for returns true when the flag was set before     *)
(* rel_time elapsed (at once, without blocking, when it is set already)    *)
(* and false otherwise, i.e. whenever the flag was still unset at the      *)
(* moment rel_time elapsed; it does not change the flag;                   *)
(* wait_for_or_throw throws 'Wait timed out.' exactly when wait_for        *)
(* returns false.                                                          *)
(***************************************************************************)
C38_Original ==
    /\ [][OnlySetWrites]_vars
    /\ [](\A t \in EvThreads : evPc[t] = "wf_blocked" => ~m_signaled)
    /\ [](\A t \in TimedReturned :
             evTimed[t].ret = "true" <=>
                 evTimed[t].timeout \in {"pending", "elapsed_set"})
    /\ []ThrowsIffFalse

(***************************************************************************)
(* C38 (amended): wait_for returns the value the flag has when it last     *)
(* evaluates its predicate under the mutex.  So it returns true whenever   *)
(* the flag was set before rel_time elapsed (at once, without blocking,    *)
(* when it is set already), and also when set() stores the flag after      *)
(* rel_time has elapsed but before the timed-out thread has locked the     *)
(* mutex again; it returns false only when rel_time has elapsed and the    *)
(* flag is still unset at that last evaluation.  It does not change the    *)
(* flag, and wait_for_or_throw throws 'Wait timed out.' exactly when       *)
(* wait_for returns false.                                                 *)
(***************************************************************************)
C38_TimedWait ==
    /\ [][OnlySetWrites]_vars
    /\ [](\A t \in EvThreads : evPc[t] = "wf_blocked" => ~m_signaled)
    /\ [](\A t \in TimedReturned :
             /\ evTimed[t].timeout \in {"pending", "elapsed_set"} =>
                    evTimed[t].ret = "true"
             /\ evTimed[t].ret = "true" => m_signaled
             /\ evTimed[t].ret = "false" =>
                    evTimed[t].timeout = "elapsed_unset")
    /\ [][\A t \in EvThreads :
             (evTimed[t].ret = "none" /\ evTimed'[t].ret # "none") =>
                 (evTimed'[t].ret = "true" <=> m_signaled)]_vars
    /\ []ThrowsIffFalse

\* rel_time elapsed with the flag unset, and wait_for_or_throw threw; another
\* thread's wait_for had returned true before its rel_time elapsed
C38_Witness ==
    \E t, u \in TimedReturned :
        /\ evTimed[t].call = "wait_for_or_throw"
        /\ evTimed[t].timeout = "elapsed_unset" /\ evPc[t] = "wf_threw"
        /\ evTimed[u].call = "wait_for" /\ evTimed[u].ret = "true"
        /\ evTimed[u].timeout = "pending"

====
